---------------------------- MODULE Spec2Model ----------------------------
(***************************************************************************)
(* A model of the archive viewer of src/viewer/view.js: the resolution of  *)
(* references against the virtual base (inZipPathToUrl, parseUrl), the     *)
(* locator store (inZipFiles, blobUrlToInZipPath, rewrittenBlobUrl), the   *)
(* fetch orchestrator (fetchFile, fetchPage), the document rewriter        *)
(* (parseDocument) and the stylesheet rewriter (processCssText and         *)
(* ComplexUrlFetcher).                                                     *)
(*                                                                         *)
(* A string is a sequence of one-character strings.  A few fixed prefixes  *)
(* are single elements: the virtual base, an external origin, the origin   *)
(* of the extension outside the virtual base, a URL that cannot be parsed, *)
(* and each blob locator.                                                  *)
(***************************************************************************)
EXTENDS Integers, Sequences, FiniteSets, TLC

VARIABLES
  zipFiles,            \* init: the entries read from the cache, in order
  loaded,              \* init: number of entries the load loop has handled
  inZipFiles,          \* viewer.inZipFiles: path -> [file, url]
  blobUrlToInZipPath,  \* viewer.blobUrlToInZipPath: locator -> path
  rewrittenBlobUrl,    \* viewer.rewrittenBlobUrl: set of locators
  blobCount,           \* number of locators URL.createObjectURL has issued
  acts,                \* the asynchronous calls in flight or finished
  arrays,              \* the arrays created as recursion chains, in order
  call,                \* the last call of the store's interface and its result
  codec,               \* the path under conversion and its conversions
  view                 \* init: its position, the src of the viewer iframe,
                       \* the errors reported, and viewer.hasCsp

vars == <<zipFiles, loaded, inZipFiles, blobUrlToInZipPath, rewrittenBlobUrl,
          blobCount, acts, arrays, call, codec, view>>

storeVars == <<inZipFiles, blobUrlToInZipPath, rewrittenBlobUrl, blobCount>>

(***************************************************************************)
(* Bounds of the model.                                                    *)
(***************************************************************************)
MaxPathLen == 4

(***************************************************************************)
(* Strings.                                                                *)
(***************************************************************************)
\* the element of a singleton: The({F(x) : x \in {e}}) is F(e), with e
\* evaluated once
The(S) == CHOOSE r \in S : TRUE

Range(s) == {s[i] : i \in DOMAIN s}

SeqsUpTo(S, n) == UNION {[1..k -> S] : k \in 0..n}

RECURSIVE Flatten(_)
Flatten(ss) ==
  IF ss = <<>> THEN <<>>
  ELSE Head(ss) \o The({Flatten(rest) : rest \in {Tail(ss)}})

\* index of the first occurrence of c in s, 0 if there is none
RECURSIVE IndexOf(_, _)
IndexOf(s, c) ==
  IF s = <<>> THEN 0
  ELSE IF Head(s) = c THEN 1
  ELSE The({IF r = 0 THEN 0 ELSE r + 1 :
              r \in {IndexOf(rest, c) : rest \in {Tail(s)}}})

StartsWith(s, p) == Len(s) >= Len(p) /\ SubSeq(s, 1, Len(p)) = p

Drop(s, n) == The({SubSeq(x, n + 1, Len(x)) : x \in {s}})

\* String.prototype.split("/")
RECURSIVE Split(_)
SplitAtSlash(s, i, rest) == <<SubSeq(s, 1, i - 1)>> \o rest

Split(s) ==
  IF IndexOf(s, "/") = 0 THEN <<s>>
  ELSE The({SplitAtSlash(s, IndexOf(s, "/"), rest) :
              rest \in {Split(x) : x \in {Drop(s, IndexOf(s, "/"))}}})

\* Array.prototype.join("/")
RECURSIVE Join(_)
Join(ss) ==
  IF ss = <<>> THEN <<>>
  ELSE IF Len(ss) = 1 THEN Head(ss)
  ELSE Head(ss) \o <<"/">> \o The({Join(rest) : rest \in {Tail(ss)}})

(***************************************************************************)
(* Percent-encoding.  PctOf is the UTF-8 percent-encoding of a character.  *)
(***************************************************************************)
HexDigits == {"0", "1", "2", "3", "4", "5", "6", "7", "8", "9",
              "A", "B", "C", "D", "E", "F", "a", "b", "c", "d", "e", "f"}

\* characters encodeURIComponent leaves alone (letters, digits, - _ . ! ~ * ' ( ))
Unreserved == {"a", "b", "n", "s", "x", ".", "0", "1", "2", "3", "4", "5", "6",
               "7", "8", "9", "A", "B", "C", "D", "E", "F"}

\* characters with a percent-encoding known to the model
Coded == {" ", "%", "@", "#", "?", "/", "U+00E9", "a", "b", "."}

PctOf(c) ==
  CASE c = " "        -> <<"%", "2", "0">>
    [] c = "%"        -> <<"%", "2", "5">>
    [] c = "@"        -> <<"%", "4", "0">>
    [] c = "#"        -> <<"%", "2", "3">>
    [] c = "?"        -> <<"%", "3", "F">>
    [] c = "/"        -> <<"%", "2", "F">>
    [] c = "U+00E9" -> <<"%", "C", "3", "%", "A", "9">>
    [] c = "a"        -> <<"%", "6", "1">>
    [] c = "b"        -> <<"%", "6", "2">>
    [] c = "."        -> <<"%", "2", "E">>
    [] OTHER          -> <<c>>

encodeURIComponent(x) ==
  Flatten([i \in DOMAIN x |-> IF x[i] \in Unreserved THEN <<x[i]>> ELSE PctOf(x[i])])

\* scrapbook.decodeURIComponent: every run of %XX is decoded; a "%" that starts
\* no %XX, or a %XX that decodes to no character, is kept as it stands
RECURSIVE decodeURIComponent(_)
\* the characters whose percent-encoding x starts with
DecodedAt(x) == {c \in Coded : StartsWith(x, PctOf(c))}

decodeURIComponent(x) ==
  IF x = <<>> THEN <<>>
  ELSE IF Head(x) = "%" /\ Len(x) >= 3 /\ x[2] \in HexDigits /\ x[3] \in HexDigits
            /\ DecodedAt(x) # {}
    THEN The({<<c>> \o The({decodeURIComponent(rest) :
                              rest \in {Drop(x, Len(PctOf(c)))}}) :
                c \in {CHOOSE d \in DecodedAt(x) : TRUE}})
    ELSE <<Head(x)>> \o The({decodeURIComponent(rest) : rest \in {Tail(x)}})

(***************************************************************************)
(* URLs.  new URL(url, base) is modelled for the three origins the viewer  *)
(* meets: the virtual base (viewerData.virtualBase, the directory viewer/!/*)
(* of the extension), the extension outside that directory, and an         *)
(* external origin.                                                        *)
(***************************************************************************)
virtualBase == <<"ext://viewer/!/">>
OutBase     == <<"ext://">>
ExtBase     == <<"http://e/">>
BadUrl      == <<"http://[">>

Undefined == <<"undefined">>

OriginOf(tok) ==
  CASE <<tok>> = virtualBase -> "vb"
    [] <<tok>> = OutBase     -> "out"
    [] <<tok>> = ExtBase     -> "ext"
    [] OTHER                 -> "none"

BaseOf(org) ==
  CASE org = "vb"  -> virtualBase
    [] org = "out" -> OutBase
    [] OTHER       -> ExtBase

\* the URL parser's path percent-encode set: the space and non-ASCII characters
\* are encoded, "%" and "@" are not
UrlPathEncode(x) ==
  Flatten([i \in DOMAIN x |-> IF x[i] \in {" ", "U+00E9"} THEN PctOf(x[i]) ELSE <<x[i]>>])

SingleDot == {<<".">>, <<"%", "2", "E">>}
DoubleDot == {a \o b : a \in SingleDot, b \in SingleDot}

\* the path state of the URL parser: the segments `in` are appended to `stack`
RECURSIVE ResolveSegments(_, _, _)
\* one segment s, the last one leaving an empty slot where it is a dot segment
ResolveSegment(s, slot, stack, org) ==
  IF s \in SingleDot THEN [segs |-> stack \o slot, org |-> org]
  ELSE IF s \in DoubleDot
    THEN IF stack = <<>>
           THEN [segs |-> slot, org |-> IF org = "vb" THEN "out" ELSE org]
           ELSE [segs |-> SubSeq(stack, 1, Len(stack) - 1) \o slot, org |-> org]
  ELSE [segs |-> Append(stack, UrlPathEncode(s)), org |-> org]

ResolveSegments(in, stack, org) ==
  IF in = <<>> THEN [segs |-> stack, org |-> org]
  ELSE The({ResolveSegments(rest, r.segs, r.org) :
              rest \in {Tail(in)},
              r \in {ResolveSegment(Head(in),
                                    IF Len(in) = 1 THEN << <<>> >> ELSE <<>>,
                                    stack, org)}})

\* a reference split into its path, query and fragment
SplitMain(main, hasF, frag, q) ==
  [path  |-> IF q = 0 THEN main ELSE SubSeq(main, 1, q - 1),
   hasQ  |-> q # 0,
   query |-> IF q = 0 THEN <<>> ELSE Drop(main, q),
   hasF  |-> hasF,
   frag  |-> frag]

SplitAt(x, h) ==
  IF h = 0 THEN SplitMain(x, FALSE, <<>>, IndexOf(x, "?"))
  ELSE SplitMain(SubSeq(x, 1, h - 1), TRUE, Drop(x, h),
                 IndexOf(SubSeq(x, 1, h - 1), "?"))

SplitRef(x) == SplitAt(x, IndexOf(x, "#"))

FailedUrl == [ok |-> FALSE, org |-> "none", segs |-> <<>>, hasQ |-> FALSE,
              query |-> <<>>, hasF |-> FALSE, frag |-> <<>>]

UrlRecordOf(rs, hasQ, query, hasF, frag) ==
  [ok |-> TRUE, org |-> rs.org, segs |-> rs.segs, hasQ |-> hasQ,
   query |-> query, hasF |-> hasF, frag |-> frag]

UrlRecord(rs, hasQ, query, hasF, frag) ==
  The({UrlRecordOf(x, hasQ, query, hasF, frag) : x \in {rs}})

ParseAbsoluteRef(r, org) ==
  UrlRecord(ResolveSegments(Split(r.path), <<>>, org),
            r.hasQ, r.query, r.hasF, r.frag)

ParseAbsolute(x) ==
  The({ParseAbsoluteRef(r, OriginOf(Head(x))) : r \in {SplitRef(Tail(x))}})

\* a reference r resolved against the parsed base b
ParseRelativeRef(r, b) ==
  IF r.path = <<>>
    THEN UrlRecord(b, IF r.hasQ THEN TRUE ELSE b.hasQ,
                   IF r.hasQ THEN r.query ELSE b.query, r.hasF, r.frag)
  ELSE IF Head(r.path) = "/"
    THEN UrlRecord(ResolveSegments(Split(Tail(r.path)), <<>>,
                                   IF b.org = "vb" THEN "out" ELSE b.org),
                   r.hasQ, r.query, r.hasF, r.frag)
  ELSE UrlRecord(ResolveSegments(Split(r.path),
                                 SubSeq(b.segs, 1, Len(b.segs) - 1), b.org),
                 r.hasQ, r.query, r.hasF, r.frag)

\* new URL(url, base): ok is FALSE where the constructor throws
NewURL(x, base) ==
  IF x # <<>> /\ <<Head(x)>> = BadUrl THEN FailedUrl
  ELSE IF x # <<>> /\ OriginOf(Head(x)) # "none" THEN ParseAbsolute(x)
  ELSE IF base = Undefined \/ base = <<>> THEN FailedUrl
  ELSE IF <<Head(base)>> = BadUrl \/ OriginOf(Head(base)) = "none" THEN FailedUrl
  ELSE The({ParseRelativeRef(r, b) : r \in {SplitRef(x)}, b \in {ParseAbsolute(base)}})

Search(u) == IF u.hasQ /\ u.query # <<>> THEN <<"?">> \o u.query ELSE <<>>
Hash(u)   == IF u.hasF /\ u.frag # <<>> THEN <<"#">> \o u.frag ELSE <<>>

Href(u) ==
  BaseOf(u.org) \o Join(u.segs)
    \o (IF u.hasQ THEN <<"?">> \o u.query ELSE <<>>)
    \o (IF u.hasF THEN <<"#">> \o u.frag ELSE <<>>)

\* the URL after `search = ""` and `hash = ""`
Bare(u) == [u EXCEPT !.hasQ = FALSE, !.query = <<>>, !.hasF = FALSE, !.frag = <<>>]

\* scrapbook.splitUrlByAnchor
SplitAnchorAt(x, h) ==
  IF h = 0 THEN <<x, <<>>>> ELSE <<SubSeq(x, 1, h - 1), Drop(x, h - 1)>>

splitUrlByAnchor(x) == SplitAnchorAt(x, IndexOf(x, "#"))

(***************************************************************************)
(* viewer.inZipPathToUrl and viewer.parseUrl.                              *)
(***************************************************************************)
EncodeSegments(segs) == [i \in DOMAIN segs |-> encodeURIComponent(segs[i])]
DecodeSegments(segs) == [i \in DOMAIN segs |-> decodeURIComponent(segs[i])]

inZipPathToUrlRaw(inZipPath) ==
  virtualBase \o (IF inZipPath = Undefined THEN <<>> ELSE inZipPath)

inZipPathToUrl(inZipPath) ==
  virtualBase
    \o Join(EncodeSegments(Split(IF inZipPath = Undefined THEN <<>> ELSE inZipPath)))

\* lines 71-72 of parseUrl: the path a URL under the virtual base stands for
hrefToInZipPath(href) ==
  Join(DecodeSegments(Split(Drop(href, Len(virtualBase)))))

NotInZip(url) ==
  [url |-> url, inZip |-> FALSE, inZipPath |-> Undefined,
   virtualUrl |-> Undefined, mime |-> "undefined", search |-> Undefined,
   hash |-> Undefined]

\* the same with the search kept in url
parseUrlFoundWithSearch(search, hash, href, inZipPath) ==
  [url |-> <<inZipFiles[inZipPath].url>> \o search \o hash,
   inZip |-> TRUE, inZipPath |-> inZipPath,
   virtualUrl |-> href \o hash,
   mime |-> inZipFiles[inZipPath].file.type,
   search |-> search, hash |-> hash]

\* lines 77-85 of parseUrl
parseUrlFound(search, hash, href, inZipPath) ==
  [url |-> <<inZipFiles[inZipPath].url>> \o hash,
   inZip |-> TRUE, inZipPath |-> inZipPath,
   virtualUrl |-> href \o hash,
   mime |-> inZipFiles[inZipPath].file.type,
   search |-> search, hash |-> hash]

\* the same with the resolved URL returned for a path with no entry
parseUrlLookupResolved(url, search, hash, href, inZipPath) ==
  IF inZipPath \in DOMAIN inZipFiles
    THEN parseUrlFound(search, hash, href, inZipPath)
    ELSE NotInZip(href \o hash)

\* lines 74-89 of parseUrl
parseUrlLookup(url, search, hash, href, inZipPath) ==
  IF inZipPath \in DOMAIN inZipFiles
    THEN parseUrlFound(search, hash, href, inZipPath)
    ELSE NotInZip(url)

\* lines 65-72 of parseUrl: href is the URL with its search and hash cleared
parseUrlInBase(url, search, hash, href) ==
  The({parseUrlLookup(url, search, hash, href, inZipPath) :
         inZipPath \in {hrefToInZipPath(href)}})

\* lines 58-92 of parseUrl, absoluteUrl being new URL(url, refUrl)
parseUrlOf(url, absoluteUrl) ==
  IF ~absoluteUrl.ok THEN NotInZip(url)
  ELSE IF StartsWith(Href(absoluteUrl), virtualBase)
    THEN The({parseUrlInBase(url, Search(absoluteUrl), Hash(absoluteUrl), href) :
                href \in {Href(Bare(absoluteUrl))}})
  ELSE NotInZip(Href(absoluteUrl))

parseUrl(url, refUrl) ==
  The({parseUrlOf(url, absoluteUrl) : absoluteUrl \in {NewURL(url, refUrl)}})

(***************************************************************************)
(* Values.  JsNull is null; ToText is its conversion where a string is     *)
(* expected (String.prototype.replace converts what its callback returns). *)
(***************************************************************************)
JsNull == <<"NULL">>
ToText(v) == IF v = JsNull THEN <<"n", "u", "l", "l">> ELSE v
AboutBlank == <<"about:blank">>

\* a || b
OrElse(a, b) == IF a = JsNull \/ a = Undefined \/ a = <<>> THEN b ELSE a

Blob(n) == "blob:" \o ToString(n)

HtmlTypes == {"text/html", "application/xhtml+xml", "image/svg+xml"}

(***************************************************************************)
(* The calls in flight.  acts is the sequence of the calls of fetchPage     *)
(* ("page"), of fetchFile with processCssFile ("css"), of fetchFile with   *)
(* no rewriteFunc ("file") and of processCssText on a style element        *)
(* ("csstext") made so far; parent and slot name the call and the node (or *)
(* the token) whose task it is.  A call is "pending" while it awaits the   *)
(* reading of its file, "traversing" while its synchronous part runs,      *)
(* "running" while it awaits its tasks, "done" once settled and "failed"   *)
(* once rejected.  All that runs between two readings runs in one step:    *)
(* the continuations of settled promises run before the next event is      *)
(* delivered.  content is what the blob made for a page holds, and how     *)
(* tells whether it is the serialized document or the file as it was.      *)
(*                                                                         *)
(* A world is the part of the state a step threads through its calls.      *)
(***************************************************************************)
World == [acts |-> acts, b2p |-> blobUrlToInZipPath, rw |-> rewrittenBlobUrl,
          n |-> blobCount, hasCsp |-> view.hasCsp, arrays |-> arrays]

\* from names the link (of the document of call c, its element i) whose click
\* made a call; live holds the href the click handler has set on a link
NoClick == [c |-> 0, i |-> 0]

Act(kind, parent, slot, inZipPath, url, recurseChain, st) ==
  [kind |-> kind, parent |-> parent, slot |-> slot, inZipPath |-> inZipPath,
   url |-> url, recurseChain |-> recurseChain, st |-> st, result |-> JsNull,
   out |-> <<>>, urlHash |-> <<>>, text |-> <<>>, entered |-> FALSE,
   made |-> {}, notices |-> {}, lap |-> 0, content |-> <<>>, how |-> "none",
   head |-> <<>>, chain |-> 0, fetcher |-> 0, from |-> NoClick, live |-> <<>>]

Found(inZipPath) == inZipPath \in DOMAIN inZipFiles

\* the attribute values (the text of a style element) of the elements
NodeValues(nodes) == [i \in DOMAIN nodes |-> nodes[i].val]

Children(W, t) == {c \in DOMAIN W.acts : W.acts[c].parent = t}

RECURSIVE Ancestors(_, _)
Ancestors(W, t) == IF t = 0 THEN {} ELSE {t} \cup Ancestors(W, W.acts[t].parent)

\* scrapbook.parseHeaderRefresh
RefreshAt(content, i) ==
  IF i = 0 THEN [time |-> content, url |-> <<>>]
  ELSE [time |-> SubSeq(content, 1, i - 1), url |-> Drop(content, i)]

parseHeaderRefresh(content) == RefreshAt(content, IndexOf(content, ";url="))

(***************************************************************************)
(* ComplexUrlFetcher.                                                      *)
(***************************************************************************)
MarkerPrefix == "urn:scrapbook:url:"

CssOpeners == {"@import url(", "url("}

\* scrapbook.getUuid: the k-th key of call t
Uuid(t, k) == "uuid:" \o ToString(t) \o ":" \o ToString(k)

\* constructor: the fetcher's copy of the chain, with refUrl appended
fetcherRecurseChain(recurseChain, refUrl) ==
  recurseChain \o <<splitUrlByAnchor(refUrl)[1]>>

FetcherChain(a) == fetcherRecurseChain(a.recurseChain, inZipPathToUrl(a.inZipPath))

\* getUrlHash
UrlHashEntry(key, url, rewriteFunc) ==
  [key |-> key, url |-> url, newUrl |-> JsNull, rewriteFunc |-> rewriteFunc]

\* scrapbook.rewriteCssText with the callbacks of processCssText: every URL of
\* the text is replaced by the marker of a key allocated by getUrlHash
RECURSIVE rewriteCssText(_, _, _)
rewriteCssToken(text, t, k, close, rest) ==
  [text    |-> <<Head(text), MarkerPrefix, Uuid(t, k), ")">> \o rest.text,
   urlHash |-> <<UrlHashEntry(Uuid(t, k), SubSeq(text, 2, close - 1),
                              Head(text) = "@import url(")>> \o rest.urlHash]

rewriteCssChar(c, rest) ==
  [text |-> <<c>> \o rest.text, urlHash |-> rest.urlHash]

rewriteCssText(text, t, k) ==
  IF text = <<>> THEN [text |-> <<>>, urlHash |-> <<>>]
  ELSE IF Head(text) \in CssOpeners /\ IndexOf(text, ")") # 0
    THEN The({rewriteCssToken(text, t, k + 1, IndexOf(text, ")"), rest) :
                rest \in {rewriteCssText(x, t, k + 1) :
                            x \in {Drop(text, IndexOf(text, ")"))}}})
    ELSE The({rewriteCssChar(Head(text), rest) :
                rest \in {rewriteCssText(x, t, k) : x \in {Tail(text)}}})

\* the entry of urlHash a marker names, 0 when its key is not in urlHash
KeyIndex(urlHash, key) ==
  IF \E j \in DOMAIN urlHash : urlHash[j].key = key
    THEN CHOOSE j \in DOMAIN urlHash : urlHash[j].key = key
    ELSE 0

\* a marker whose key is not in urlHash is left as it stands
RECURSIVE finalRewrite(_, _)
finalRewrite(text, urlHash) ==
  IF text = <<>> THEN <<>>
  ELSE IF Head(text) = MarkerPrefix /\ Len(text) >= 2
          /\ KeyIndex(urlHash, text[2]) # 0
    THEN ToText(urlHash[KeyIndex(urlHash, text[2])].newUrl)
           \o The({finalRewrite(rest, urlHash) : rest \in {Drop(text, 2)}})
    ELSE <<Head(text)>> \o The({finalRewrite(rest, urlHash) : rest \in {Tail(text)}})

(***************************************************************************)
(* Settling.  Finish is what a call does once its tasks are settled;       *)
(* Deliver is the continuation its caller attached to it.                  *)
(***************************************************************************)
\* the same with a locator registered only for the first rewrite of a path
RegisterOnce(W, t) ==
  IF \E u \in W.rw : W.b2p[u] = W.acts[t].inZipPath
    THEN [W EXCEPT !.n = @ + 1,
                   !.acts[t].made = @ \cup {Blob(W.n + 1)}]
    ELSE [W EXCEPT !.n = @ + 1,
                   !.b2p = (Blob(W.n + 1) :> W.acts[t].inZipPath) @@ @,
                   !.rw = @ \cup {Blob(W.n + 1)},
                   !.acts[t].made = @ \cup {Blob(W.n + 1)}]

\* the same with the earlier rewritten locators of the path forgotten
RegisterLatest(W, t) ==
  [W EXCEPT !.n = @ + 1,
            !.b2p = (Blob(W.n + 1) :> W.acts[t].inZipPath) @@ @,
            !.rw = {u \in @ : W.b2p[u] # W.acts[t].inZipPath} \cup {Blob(W.n + 1)},
            !.acts[t].made = @ \cup {Blob(W.n + 1)}]

\* the same with the path of the locator left unrecorded
RegisterUnmapped(W, t) ==
  [W EXCEPT !.n = @ + 1,
            !.rw = @ \cup {Blob(W.n + 1)},
            !.acts[t].made = @ \cup {Blob(W.n + 1)}]

\* fetchFile, lines 123-126: call t registers the locator of its rewritten file
Register(W, t) ==
  [W EXCEPT !.n = @ + 1,
            !.b2p = (Blob(W.n + 1) :> W.acts[t].inZipPath) @@ @,
            !.rw = @ \cup {Blob(W.n + 1)},
            !.acts[t].made = @ \cup {Blob(W.n + 1)}]

\* fetchPage, lines 143-147 and 169
searchAndHash(url) == IF url = <<>> THEN <<>> ELSE splitUrlByAnchor(url)[2]

\* the same with the rejection passed on to the caller
returnNothing(W, t) == [W EXCEPT !.acts[t].st = "failed"]

\* fetchPage, lines 161-165: the rewriteFunc returns data, the file as it is,
\* which fetchFile registers under a new locator
returnData(W, t) ==
  [Register(W, t) EXCEPT
     !.acts[t].st = "done",
     !.acts[t].how = "original",
     !.acts[t].content = NodeValues(inZipFiles[W.acts[t].inZipPath].file.nodes),
     !.acts[t].result = <<Blob(W.n + 1)>> \o searchAndHash(W.acts[t].url)]

\* parseDocument, lines 682-683, registered by fetchFile
returnSerialized(W, t) ==
  [Register(W, t) EXCEPT
     !.acts[t].st = "done",
     !.acts[t].how = "serialized",
     !.acts[t].content = W.acts[t].out,
     !.acts[t].result = <<Blob(W.n + 1)>> \o searchAndHash(W.acts[t].url)]

Finish(W, t) ==
  CASE W.acts[t].kind = "csstext" ->
         [W EXCEPT !.acts[t].st = "done",
                   !.acts[t].result = finalRewrite(W.acts[t].text, W.acts[t].urlHash)]
    [] W.acts[t].kind # "csstext" /\ ~Found(W.acts[t].inZipPath) ->
         [W EXCEPT !.acts[t].st = "done", !.acts[t].result = JsNull]
    [] W.acts[t].kind = "file" /\ Found(W.acts[t].inZipPath) ->
         [W EXCEPT !.acts[t].st = "done",
                   !.acts[t].result = <<inZipFiles[W.acts[t].inZipPath].url>>]
    [] W.acts[t].kind = "css" /\ Found(W.acts[t].inZipPath) ->
         [Register(W, t) EXCEPT
            !.acts[t].st = "done",
            !.acts[t].text = finalRewrite(W.acts[t].text, W.acts[t].urlHash),
            !.acts[t].result = <<Blob(W.n + 1)>>]
    [] W.acts[t].kind = "page" /\ Found(W.acts[t].inZipPath) ->
         IF W.acts[t].entered THEN returnSerialized(W, t) ELSE returnData(W, t)

\* the continuation of a task of parseDocument, by the element of the task
DeliverToNode(W, t, p, elem, url) ==
  CASE elem.tag = "meta" ->
         [W EXCEPT !.acts[p].out[W.acts[t].slot] =
            parseHeaderRefresh(elem.val).time \o <<";url=">> \o url]
    [] elem.tag = "style" \/ elem.attr = "style" ->
         [W EXCEPT !.acts[p].out[W.acts[t].slot] = W.acts[t].result]
    [] OTHER ->
         [W EXCEPT !.acts[p].out[W.acts[t].slot] = url]

\* init, lines 875-877: the continuation of the fetchPage of a click
clickDone(W, t) ==
  IF W.acts[t].from = NoClick THEN W
  ELSE [W EXCEPT !.acts[W.acts[t].from.c].live =
          (W.acts[t].from.i :> OrElse(W.acts[t].result, AboutBlank)) @@ @]

\* url is fetchedUrl || info.url
DeliverTo(W, t, p, url) ==
  IF p = 0 THEN clickDone(W, t)
  ELSE IF W.acts[p].kind = "page"
    THEN DeliverToNode(W, t, p,
                       inZipFiles[W.acts[p].inZipPath].file.nodes[W.acts[t].slot],
                       url)
  ELSE [W EXCEPT !.acts[p].urlHash[W.acts[t].slot].newUrl = url]

\* the same with the continuation of a task run only when it is the first
\* task of its caller to complete
DeliverIfFirst(W, t) ==
  IF \E c \in Children(W, W.acts[t].parent) : c # t /\ W.acts[c].st = "done"
    THEN W
    ELSE DeliverTo(W, t, W.acts[t].parent, OrElse(W.acts[t].result, W.acts[t].url))

Deliver(W, t) ==
  DeliverTo(W, t, W.acts[t].parent, OrElse(W.acts[t].result, W.acts[t].url))

\* a call that returns without awaiting its tasks
SettleEarly(W, t) ==
  IF t = 0 THEN W
  ELSE IF W.acts[t].st # "running" THEN W
  ELSE The({Deliver(W1, t) : W1 \in {Finish(W, t)}})

\* Promise.all(tasks), and what follows it up the chain of callers
RECURSIVE Settle(_, _)
Settle(W, t) ==
  IF t = 0 THEN W
  ELSE IF W.acts[t].st # "running" THEN W
  ELSE IF \E c \in Children(W, t) : W.acts[c].st # "done" THEN W
  ELSE The({Settle(W2, W.acts[t].parent) :
              W2 \in {Deliver(W1, t) : W1 \in {Finish(W, t)}}})

\* What call t awaits has raised: fetchPage catches it and returns the file as
\* it is (lines 161-163); fetchFile with processCssFile and processCssText
\* have no handler and reject, and so does the Promise.all of their caller.
RECURSIVE Reject(_, _)
Reject(W, t) ==
  IF t = 0 THEN W
  ELSE IF W.acts[t].st \notin {"pending", "running"} THEN W
  ELSE IF W.acts[t].kind = "page"
    THEN The({Settle(W2, W.acts[t].parent) :
                W2 \in {Deliver(W1, t) : W1 \in {returnData(W, t)}}})
    ELSE The({Reject(W1, W.acts[t].parent) : W1 \in {returnNothing(W, t)}})

(***************************************************************************)
(* The calls of fetchFile and fetchPage.  A call is appended to acts; it   *)
(* awaits a reading when its file exists and is to be rewritten from its   *)
(* text (scrapbook.readFileAsDocument, scrapbook.rewriteCssFile), and is   *)
(* settled at once otherwise.                                              *)
(***************************************************************************)
Spawn(W, a) ==
  The({Settle(W1, Len(W1.acts)) : W1 \in {[W EXCEPT !.acts = Append(@, a)]}})

\* an array literal, or JSON.parse(JSON.stringify(...)) and the push that
\* follows it: a new array of the given elements; ref is the array made
newArray(W, elems) ==
  [W |-> [W EXCEPT !.arrays = Append(@, elems)], ref |-> Len(W.arrays) + 1]

\* the elements, as they are now, of the array a call was given
ChainOf(W, t) == W.arrays[W.acts[t].chain]

\* a call given the array recurseChain
Called(W, kind, parent, slot, inZipPath, url, recurseChain, st) ==
  [Act(kind, parent, slot, inZipPath, url, W.arrays[recurseChain], st)
     EXCEPT !.chain = recurseChain]

\* A call of parseDocument for the document and the chain (as a set) of one of
\* its callers decides every reference as that caller did, and so makes the
\* same call again, without end.  Such a call is "recurring": the calls it
\* leads to are the same call, one reading later.
Diverges(W, parent, inZipPath, recurseChain) ==
  \E u \in Ancestors(W, parent) :
    /\ W.acts[u].kind = "page"
    /\ W.acts[u].inZipPath = inZipPath
    /\ Range(W.acts[u].recurseChain) = Range(recurseChain)

fetchPage(W, parent, slot, inZipPath, url, recurseChain) ==
  Spawn(W, Called(W, "page", parent, slot, inZipPath, url, recurseChain,
               IF Found(inZipPath) /\ inZipFiles[inZipPath].file.type \in HtmlTypes
                 THEN IF Diverges(W, parent, inZipPath, W.arrays[recurseChain])
                        THEN "recurring" ELSE "pending"
                 ELSE "running"))

\* fetchFile with rewriteFunc = viewer.processCssFile
fetchCssFile(W, parent, slot, inZipPath, url, recurseChain) ==
  Spawn(W, Called(W, "css", parent, slot, inZipPath, url, recurseChain,
               IF Found(inZipPath) THEN "pending" ELSE "running"))

\* fetchFile taking the branch of lines 115-126 with no rewriteFunc given: the
\* file is registered under a new locator as it stands
fetchFileCopy(W, parent, slot, inZipPath, url, recurseChain) ==
  Spawn(W, Called(W, "page", parent, slot, inZipPath, url, recurseChain, "running"))

\* fetchFile with no rewriteFunc
fetchFile(W, parent, slot, inZipPath, url, recurseChain) ==
  Spawn(W, Called(W, "file", parent, slot, inZipPath, url, recurseChain, "running"))

(***************************************************************************)
(* processCssText and ComplexUrlFetcher.startFetches.                      *)
(***************************************************************************)
\* the text a file is read as by scrapbook.rewriteCssFile
CssTextOf(file) ==
  IF file.css # <<>> THEN file.css
  ELSE Flatten([i \in DOMAIN file.nodes |->
                  IF file.nodes[i].tag = "style" THEN file.nodes[i].val ELSE <<>>])

SourceText(W, t) ==
  IF W.acts[t].kind = "csstext"
    THEN inZipFiles[W.acts[t].inZipPath].file.nodes[W.acts[t].slot].val
    ELSE CssTextOf(inZipFiles[W.acts[t].inZipPath].file)

\* the cycle check of startFetches, lines 741-747
IsCircular(info, chain) ==
  /\ info.inZip
  /\ splitUrlByAnchor(inZipPathToUrl(info.inZipPath))[1] \in Range(chain)

\* the same with every target fetched as it stands
StartFetchInfoPlain(W, t, j, chain, info) ==
  IF IsCircular(info, chain) THEN W
  ELSE fetchFile(W, t, j, info.inZipPath, info.url, W.acts[t].fetcher)

\* the task of one key, lines 737-758
StartFetchInfo(W, t, j, chain, info) ==
  IF IsCircular(info, chain) THEN W
  ELSE IF W.acts[t].urlHash[j].rewriteFunc
    THEN fetchCssFile(W, t, j, info.inZipPath, info.url, W.acts[t].fetcher)
    ELSE fetchFile(W, t, j, info.inZipPath, info.url, W.acts[t].fetcher)

StartFetchIn(W, t, j, chain) ==
  The({StartFetchInfo(W, t, j, chain, info) :
         info \in {parseUrl(W.acts[t].urlHash[j].url, chain[Len(chain)])}})

StartFetch(W, t, j) ==
  The({StartFetchIn(W, t, j, chain) : chain \in {W.arrays[W.acts[t].fetcher]}})

RECURSIVE startFetches(_, _, _)
startFetches(W, t, j) ==
  IF j > Len(W.acts[t].urlHash) THEN W
  ELSE The({startFetches(W1, t, j + 1) : W1 \in {StartFetch(W, t, j)}})

\* lines 695-710: the URLs are replaced by markers, the fetches are started,
\* and the final rewrite follows once they are settled
processCssScan(W, t, scan) ==
  The({Settle([W2 EXCEPT !.acts[t].st = "running"], t) :
         W2 \in {startFetches(W1, t, 1) :
                   W1 \in {[W EXCEPT !.acts[t].st = "traversing",
                                      !.acts[t].entered = TRUE,
                                      !.acts[t].text = scan.text,
                                      !.acts[t].urlHash = scan.urlHash]}}})

\* new ComplexUrlFetcher(refUrl, recurseChain), lines 715-724
newFetcher(W, t) ==
  [W EXCEPT !.arrays = Append(@, fetcherRecurseChain(
                                   ChainOf(W, t), inZipPathToUrl(W.acts[t].inZipPath))),
            !.acts[t].fetcher = Len(W.arrays) + 1]

processCssText(W, t) ==
  The({processCssScan(W1, t, scan) :
         W1 \in {newFetcher(W, t)},
         scan \in {rewriteCssText(SourceText(W, t), t, 0)}})

(***************************************************************************)
(* parseDocument.                                                          *)
(***************************************************************************)
\* the same rule with no case for a link to the document itself
linkTargetUrl(info, inZipPath) == info.url

\* the chain of the frame left as the chain of the document
frameRecurseChainSame(recurseChain, refUrl) == recurseChain

\* the rule of a/area href and of href/xlink:href in SVG and MathML
linkTarget(info, inZipPath) ==
  IF info.inZip
    THEN IF info.inZipPath # inZipPath THEN info.url
         ELSE OrElse(info.hash, <<"#">>)
    ELSE info.url

\* the chain of the refreshed page seeded from the document alone
metaRecurseChainFresh(recurseChain, refUrl) == <<refUrl>>

\* lines 410-411
frameRecurseChain(recurseChain, refUrl) == Append(recurseChain, refUrl)

\* lines 274-275
metaRecurseChain(recurseChain, refUrl) == Append(recurseChain, refUrl)

\* lines 269-302: target is splitUrlByAnchor of info.virtualUrl || info.url
rewriteMetaTarget(W, t, i, refUrl, metaRefresh, info, sourcePage, target) ==
  IF target[1] # sourcePage
    THEN IF target[1] \in Range(ChainOf(W, t))
           THEN [W EXCEPT !.acts[t].out[i] =
                   metaRefresh.time \o <<";url=">> \o AboutBlank]
         ELSE IF info.inZip
           THEN The({fetchPage(c.W, t, i, info.inZipPath, info.url, c.ref) :
                       c \in {newArray(W, metaRecurseChain(ChainOf(W, t), refUrl))}})
         ELSE [W EXCEPT !.n = @ + 1,
                        !.acts[t].made = @ \cup {Blob(W.n + 1)},
                        !.acts[t].notices =
                          @ \cup {[url |-> Blob(W.n + 1), href |-> info.url]},
                        !.acts[t].out[i] =
                          metaRefresh.time \o <<";url=", Blob(W.n + 1)>> \o target[2]]
  ELSE [W EXCEPT !.acts[t].out[i] =
          metaRefresh.time
            \o (IF target[2] # <<>> THEN <<";url=">> \o target[2] ELSE <<>>)]

rewriteMetaInfo(W, t, i, refUrl, metaRefresh, info) ==
  The({rewriteMetaTarget(W, t, i, refUrl, metaRefresh, info,
                         splitUrlByAnchor(refUrl)[1], target) :
         target \in {splitUrlByAnchor(IF info.virtualUrl # Undefined
                                        THEN info.virtualUrl ELSE info.url)}})

\* lines 264-268
rewriteMetaRefresh(W, t, i, refUrl, metaRefresh) ==
  IF metaRefresh.url = <<>> THEN W
  ELSE The({rewriteMetaInfo(W, t, i, refUrl, metaRefresh, info) :
              info \in {parseUrl(metaRefresh.url, refUrl)}})

rewriteMeta(W, t, i, refUrl, elem) ==
  The({rewriteMetaRefresh(W, t, i, refUrl, metaRefresh) :
         metaRefresh \in {parseHeaderRefresh(elem.val)}})

\* lines 413-431
rewriteFrameInfo(W, t, i, chain, info) ==
  IF info.inZip /\ inZipPathToUrl(info.inZipPath) \in Range(W.arrays[chain])
    THEN [W EXCEPT !.acts[t].out[i] = AboutBlank]
    ELSE fetchPage(W, t, i, info.inZipPath, info.url, chain)

\* the chain of the frame made by a push on the array of the document
frameChainInPlace(W, t, refUrl) ==
  [W |-> [W EXCEPT !.arrays[W.acts[t].chain] = frameRecurseChain(@, refUrl)],
   ref |-> W.acts[t].chain]

\* lines 410-411: the copy of the chain of the document and the push on it
frameChain(W, t, refUrl) ==
  newArray(W, frameRecurseChain(ChainOf(W, t), refUrl))

\* lines 407-434
rewriteFrame(W, t, i, refUrl, elem) ==
  The({rewriteFrameInfo(c.W, t, i, c.ref, info) :
         c \in {frameChain(W, t, refUrl)},
         info \in {parseUrl(elem.val, refUrl)}})

\* the same with the chain of the stylesheet made as the chain of a frame is
rewriteLinkInfoChained(W, t, i, refUrl, info) ==
  The({fetchCssFile(c.W, t, i, info.inZipPath, info.url, c.ref) :
         c \in {newArray(W, Append(ChainOf(W, t), refUrl))}})

\* lines 327-337
rewriteLinkInfo(W, t, i, refUrl, info) ==
  The({fetchCssFile(c.W, t, i, info.inZipPath, info.url, c.ref) :
         c \in {newArray(W, <<refUrl>>)}})

\* lines 324-343
rewriteLink(W, t, i, refUrl, elem) ==
  The({rewriteLinkInfo(W, t, i, refUrl, info) : info \in {parseUrl(elem.val, refUrl)}})

\* lines 345-352
rewriteStyle(W, t, i) ==
  The({processCssText(W1, Len(W1.acts)) :
         W1 \in {[W EXCEPT !.acts =
                    Append(@, Called(W, "csstext", t, i, W.acts[t].inZipPath, <<>>,
                                     W.acts[t].chain, "traversing"))]}})

\* lines 646-656
rewriteStyleAttribute(W, t, i) == rewriteStyle(W, t, i)

\* lines 214-226, 228-240, 243-255 and 438-450
rewriteHref(W, t, i, refUrl, elem) ==
  The({[W EXCEPT !.acts[t].out[i] = linkTarget(info, W.acts[t].inZipPath)] :
         info \in {parseUrl(elem.val, refUrl)}})

\* lines 211-657
rewriteElem(W, t, i, refUrl, elem) ==
  CASE elem.root = "svg" /\ elem.attr \in {"href", "xlink:href"} ->
         rewriteHref(W, t, i, refUrl, elem)
    [] elem.root = "math" /\ elem.attr = "href" ->
         rewriteHref(W, t, i, refUrl, elem)
    [] elem.root = "html" /\ elem.tag = "meta" /\ elem.attr = "content" ->
         rewriteMeta(W, t, i, refUrl, elem)
    [] elem.root = "html" /\ elem.tag = "link" /\ elem.attr = "href" ->
         rewriteLink(W, t, i, refUrl, elem)
    [] elem.root = "html" /\ elem.tag = "style" ->
         rewriteStyle(W, t, i)
    [] elem.root = "html" /\ elem.tag \in {"frame", "iframe"} /\ elem.attr = "src" ->
         rewriteFrame(W, t, i, refUrl, elem)
    [] elem.root = "html" /\ elem.tag \in {"a", "area"} /\ elem.attr = "href" ->
         rewriteHref(W, t, i, refUrl, elem)
    [] elem.root = "html" /\ elem.attr = "style" ->
         rewriteStyleAttribute(W, t, i)
    [] OTHER -> W

rewriteNode(W, t, i) ==
  The({rewriteElem(W, t, i, refUrl, inZipFiles[W.acts[t].inZipPath].file.nodes[i]) :
         refUrl \in {inZipPathToUrl(W.acts[t].inZipPath)}})

\* rewriteRecursively over the elements in document order
RECURSIVE rewriteRecursively(_, _, _)
rewriteRecursively(W, t, i) ==
  IF i > Len(inZipFiles[W.acts[t].inZipPath].file.nodes) THEN W
  ELSE The({rewriteRecursively(W1, t, i + 1) : W1 \in {rewriteNode(W, t, i)}})

\* the children of the head of a document as it is read
HeadOfFile == <<"title">>

DeApiScript == "script[src=deApiScriptUrl]"
ResetCss    == "link[rel=stylesheet][href=core/reset.css]"

\* lines 38-44: head.insertBefore(elem, head.firstChild)
insertDeApiScript(head) == <<DeApiScript>> \o head

\* lines 668-678
insertInHead(W, t) ==
  IF inZipFiles[W.acts[t].inZipPath].file.type \in {"text/html", "application/xhtml+xml"}
    THEN [W EXCEPT !.acts[t].head =
            <<ResetCss>> \o (IF W.hasCsp THEN insertDeApiScript(@) ELSE @)]
    ELSE W

\* the rewriteFunc of fetchPage once the document is read, and parseDocument
parseDocument(W, t) ==
  The({Settle([W3 EXCEPT !.acts[t].st = "running"], t) :
         W3 \in {insertInHead(W2, t) :
           W2 \in {rewriteRecursively(W1, t, 1) :
                   W1 \in {[W EXCEPT
                              !.acts[t].st = "traversing",
                              !.acts[t].entered = TRUE,
                              !.acts[t].head = HeadOfFile,
                              !.acts[t].out =
                                NodeValues(inZipFiles[W.acts[t].inZipPath].file.nodes)]}}}})

(***************************************************************************)
(* The archive.  The entries are a directory, two documents (PathA, the    *)
(* index file, and PathB) and a stylesheet (PathS); the elements of the    *)
(* two documents are drawn from Nodes.                                     *)
(***************************************************************************)
MaxNodes == 2

PathA == <<"a">>
PathB == <<"b">>
PathS == <<"s">>
indexFile == PathA

NoFile == [type |-> "undefined", nodes |-> <<>>, css |-> <<>>]
NoCall == [op |-> "none"]
NoCodec == [pc |-> "off"]

\* init before the archive is loaded: nothing shown, nothing reported
NoView(hasCsp) == [pc |-> "load", src |-> JsNull, alerts |-> 0, hasCsp |-> hasCsp]

\* references: to PathA (plainly, and with its letter percent-encoded), to
\* PathB, to PathS, to a path with no entry, to a fragment, to an external URL,
\* (with and without a fragment), and one that cannot be parsed
RefA    == <<"a">>
RefAPct == <<"%", "6", "1">>
RefB    == <<"b">>
RefBx   == <<"b", "#", "x">>
RefS    == <<"s">>
RefNone == <<"n">>
RefX    == <<"#", "x">>
RefExt  == ExtBase \o <<"x">>
RefAq   == <<"a", "?", "q", "#", "x">>
RefExtX == ExtBase \o <<"x", "#", "x">>
Refs == {RefA, RefAPct, RefB, RefBx, RefS, RefNone, RefX, RefExt, BadUrl}

Elem(tag, root, attr, val) == [tag |-> tag, root |-> root, attr |-> attr, val |-> val]

RefreshTime == <<"5">>

PageNodes == {Elem("iframe", "html", "src", r) : r \in Refs}
               \cup {Elem("meta", "html", "content", RefreshTime \o <<";url=">> \o r) :
                       r \in Refs \cup {RefExtX}}
SheetNodes == {Elem("link", "html", "href", r) : r \in Refs}
                \cup {Elem("style", "html", "text", <<o>> \o r \o <<")">>) :
                        o \in {"@import url(", "url("}, r \in Refs}
LinkNodes == {Elem("a", "html", "href", r) : r \in Refs}
               \cup {Elem("a", root, attr, r) :
                       root \in {"svg", "math"}, attr \in {"href", "xlink:href"}, r \in Refs}

\* a style element with three URLs: two imports that are read, one missing file
TwoImports == <<"@import url(", "s", ")", "@import url(", "b", ")", "url(", "n", ")">>

\* an element with a style attribute, in HTML, in SVG and in MathML
StyledNodes == {Elem("g", root, "style", <<"url(">> \o RefS \o <<")">>) :
                  root \in {"html", "svg", "math"}}

Nodes == PageNodes \cup SheetNodes \cup LinkNodes \cup StyledNodes
           \cup {Elem("style", "html", "text", TwoImports)}

SheetText == <<"@import url(", "s", ")", "url(", "b", ")", MarkerPrefix, Uuid(0, 0)>>

Archive(na, nb) ==
  <<[path |-> <<"d">>, dir |-> TRUE, file |-> NoFile],
    [path |-> PathA, dir |-> FALSE,
     file |-> [type |-> "text/html", nodes |-> na, css |-> <<>>]],
    [path |-> PathB, dir |-> FALSE,
     file |-> [type |-> "text/html", nodes |-> nb, css |-> <<>>]],
    [path |-> PathS, dir |-> FALSE,
     file |-> [type |-> "text/css", nodes |-> <<>>, css |-> SheetText]]>>

\* an archive with no entry for the index file
ArchiveNoIndex(nb) ==
  <<[path |-> <<"d">>, dir |-> TRUE, file |-> NoFile],
    [path |-> PathB, dir |-> FALSE,
     file |-> [type |-> "text/html", nodes |-> nb, css |-> <<>>]],
    [path |-> PathS, dir |-> FALSE,
     file |-> [type |-> "text/css", nodes |-> <<>>, css |-> SheetText]]>>

InitStore ==
  /\ loaded = 0
  /\ inZipFiles = <<>>
  /\ blobUrlToInZipPath = <<>>
  /\ rewrittenBlobUrl = {}
  /\ blobCount = 0
  /\ acts = <<>>
  /\ arrays = <<>>
  /\ call = NoCall
  /\ codec = NoCodec

Init ==
  /\ \/ \E la \in 1..MaxNodes :
       \E lb \in 0..(IF MaxNodes - la > 1 THEN 1 ELSE MaxNodes - la) :
         \E na \in [1..la -> Nodes], nb \in [1..lb -> Nodes] :
           zipFiles = Archive(na, nb)
     \/ \E nb \in {<<>>} \cup [1..1 -> Nodes] : zipFiles = ArchiveNoIndex(nb)
  /\ InitStore
  /\ view = NoView(TRUE)

\* init, lines 911-920: one entry of the archive is loaded
LoadEntry ==
  /\ loaded < Len(zipFiles)
  /\ loaded' = loaded + 1
  /\ LET e == zipFiles[loaded + 1]
         u == Blob(blobCount + 1)
     IN IF e.dir
          THEN UNCHANGED <<inZipFiles, blobUrlToInZipPath, blobCount>>
          ELSE /\ blobCount' = blobCount + 1
               /\ inZipFiles' = (e.path :> [file |-> e.file, url |-> u]) @@ inZipFiles
               /\ blobUrlToInZipPath' = (u :> e.path) @@ blobUrlToInZipPath
  /\ UNCHANGED <<zipFiles, rewrittenBlobUrl, acts, arrays, call, codec, view>>

\* the same with the iframe set to whatever fetchPage returned
showPageUnchecked(v, W) ==
  IF v.pc = "fetching" /\ W.acts[1].st = "done"
    THEN [v EXCEPT !.pc = "shown", !.src = W.acts[1].result]
    ELSE v

\* init, lines 935-948: what follows the call of fetchPage once it has settled
showPage(v, W) ==
  IF v.pc = "fetching" /\ W.acts[1].st = "done"
    THEN IF W.acts[1].result = JsNull
           THEN [v EXCEPT !.pc = "failed", !.alerts = @ + 1]
           ELSE [v EXCEPT !.pc = "shown", !.src = W.acts[1].result]
    ELSE v

Becomes(W) ==
  /\ acts' = W.acts
  /\ arrays' = W.arrays
  /\ blobUrlToInZipPath' = W.b2p
  /\ rewrittenBlobUrl' = W.rw
  /\ blobCount' = W.n

\* init, lines 929-933: the index page is fetched with an empty chain
ShowPage ==
  /\ loaded = Len(zipFiles)
  /\ acts = <<>>
  /\ \E W \in {fetchPage(c.W, 0, 0, indexFile, <<>>, c.ref) :
                 c \in {newArray(World, <<>>)}} :
       /\ Becomes(W)
       /\ view' = showPage([view EXCEPT !.pc = "fetching"], W)
  /\ UNCHANGED <<zipFiles, loaded, inZipFiles, call, codec>>

\* the file of a pending call has been read: its rewrite runs up to its tasks;
\* the rewrite of a recurring call leads to the same call again
resume(W, t) ==
  CASE W.acts[t].st = "recurring" ->
         [W EXCEPT !.acts[t].lap = 1 - @]
    [] W.acts[t].st = "pending" /\ W.acts[t].kind = "page" ->
         parseDocument(W, t)
    [] W.acts[t].st = "pending" /\ W.acts[t].kind = "css" ->
         processCssText(W, t)

Resume(t) ==
  /\ acts[t].st \in {"pending", "recurring"}
  /\ \E W \in {resume(W0, t) : W0 \in {World}} :
       /\ Becomes(W)
       /\ view' = showPage(view, W)
  /\ UNCHANGED <<zipFiles, loaded, inZipFiles, call, codec>>

\* the reading of the file of a pending call fails: scrapbook.readFileAsDocument
\* throws or returns no document, scrapbook.rewriteCssFile rejects
FailRead(t) ==
  /\ acts[t].st = "pending"
  /\ \E W \in {Reject(W0, t) : W0 \in {World}} :
       /\ Becomes(W)
       /\ view' = showPage(view, W)
  /\ UNCHANGED <<zipFiles, loaded, inZipFiles, call, codec>>

Next ==
  \/ LoadEntry
  \/ ShowPage
  \/ \E t \in DOMAIN acts : Resume(t)

Spec == Init /\ [][Next]_vars

\* The archives whose documents hold frames only; every reading that is
\* awaited completes and init runs to its end, so a step that can be taken is
\* taken.
FrameNodes == {Elem("iframe", "html", "src", r) : r \in Refs}

InitFrames ==
  /\ \E la \in 1..MaxNodes :
       \E lb \in 0..(IF MaxNodes - la > 1 THEN 1 ELSE MaxNodes - la) :
         \E na \in [1..la -> FrameNodes], nb \in [1..lb -> FrameNodes] :
           zipFiles = Archive(na, nb)
  /\ InitStore
  /\ view = NoView(TRUE)

FrameSpec == InitFrames /\ [][Next]_vars /\ WF_vars(Next)

(***************************************************************************)
(* The clicks on the links of the documents shown in nested frames.        *)
(***************************************************************************)
MaxClicks == 2

ClickTypes == {"text/html", "application/xhtml+xml"}

\* the document of call c is shown in a frame of a document: the call was
\* made for a frame element, or by a click in such a frame
InSubFrame(c) ==
  /\ acts[c].kind = "page" /\ acts[c].st = "done" /\ acts[c].result # JsNull
  /\ \/ acts[c].from # NoClick
     \/ /\ acts[c].parent # 0
        /\ acts[acts[c].parent].kind = "page"
        /\ inZipFiles[acts[acts[c].parent].inZipPath].file.nodes[acts[c].slot].tag
             \in {"frame", "iframe"}

\* the links of the document of call c
LinksIn(c) ==
  {i \in DOMAIN acts[c].content :
     /\ inZipFiles[acts[c].inZipPath].file.nodes[i].tag \in {"a", "area"}
     /\ inZipFiles[acts[c].inZipPath].file.nodes[i].attr = "href"}

\* elem.href: the href the handler has set, or else the attribute of the
\* document as it was made, a fragment being resolved against the URL of the
\* document
LinkHref(c, i) ==
  IF i \in DOMAIN acts[c].live THEN acts[c].live[i]
  ELSE IF acts[c].content[i] # <<>> /\ Head(acts[c].content[i]) = "#"
    THEN <<Head(acts[c].result)>> \o acts[c].content[i]
    ELSE acts[c].content[i]

\* blobUrlToInZipPath.get(main), lines 861-863
KnownLocator(W, main) == Len(main) = 1 /\ main[1] \in DOMAIN W.b2p

NoFetch(W) == [W |-> W, prevented |-> FALSE, started |-> 0]

\* lines 866-878, the fetchPage of a click and what precedes it
clickFetch(W, c, i, url, inZipPath) ==
  IF inZipFiles[inZipPath].file.type \in ClickTypes
    THEN [W |-> The({[fetchPage(a.W, 0, 0, inZipPath, url, a.ref)
                        EXCEPT !.acts[Len(W.acts) + 1].from = [c |-> c, i |-> i]] :
                      a \in {newArray(W, <<>>)}}),
          prevented |-> TRUE, started |-> Len(W.acts) + 1]
    ELSE [W |-> W, prevented |-> TRUE, started |-> 0]

\* the same with no look at rewrittenBlobUrl
frameClickUnchecked(W, c, i, url, main) ==
  IF ~KnownLocator(W, main) THEN NoFetch(W)
  ELSE clickFetch(W, c, i, url, W.b2p[main[1]])

\* lines 860-879: the handler of a click in a frame that is not the viewer
\* iframe, main being splitUrl(url)[0]
frameClick(W, c, i, url, main) ==
  IF ~KnownLocator(W, main) THEN NoFetch(W)
  ELSE IF main[1] \in W.rw THEN NoFetch(W)
  ELSE clickFetch(W, c, i, url, W.b2p[main[1]])

ClicksMade == Cardinality({t \in DOMAIN acts : acts[t].from # NoClick})

\* lines 821-879: a click with button e.button on link i of the document of
\* call c, shown in a nested frame
Click(c, i, button) ==
  /\ view.pc = "shown"
  /\ InSubFrame(c)
  /\ i \in LinksIn(c)
  /\ ClicksMade < MaxClicks
  /\ \E r \in {IF button # 0 THEN NoFetch(World)
                ELSE frameClick(World, c, i, LinkHref(c, i),
                                splitUrlByAnchor(LinkHref(c, i))[1])} :
       /\ Becomes(r.W)
       /\ view' = showPage(view, r.W)
       /\ call' = [op |-> "click", c |-> c, i |-> i, button |-> button,
                   url |-> LinkHref(c, i),
                   main |-> splitUrlByAnchor(LinkHref(c, i))[1],
                   prevented |-> r.prevented, started |-> r.started]
  /\ UNCHANGED <<zipFiles, loaded, inZipFiles, codec>>

ClickNodes == {Elem("iframe", "html", "src", RefB)}
                \cup {Elem("a", "html", "href", r) : r \in Refs}

InitClick ==
  /\ \E la \in 1..MaxNodes :
       \E lb \in 0..(IF MaxNodes - la > 1 THEN 1 ELSE MaxNodes - la) :
         \E na \in [1..la -> ClickNodes], nb \in [1..lb -> ClickNodes] :
           zipFiles = Archive(na, nb)
  /\ InitStore
  /\ view = NoView(TRUE)

NextClick ==
  \/ LoadEntry
  \/ ShowPage
  \/ \E t \in DOMAIN acts : Resume(t)
  \/ \E c \in DOMAIN acts, button \in {0, 1} :
       \E i \in 1..MaxNodes : Click(c, i, button)

ClickSpec == InitClick /\ [][NextClick]_vars

\* every archive, with the same fairness
FairSpec == Spec /\ WF_vars(Next)

\* every archive, with readings that may fail
NextFault ==
  \/ Next
  \/ \E t \in DOMAIN acts : FailRead(t)

FaultSpec == Init /\ [][NextFault]_vars

(***************************************************************************)
(* What the properties speak of.                                           *)
(***************************************************************************)
Pages == {t \in DOMAIN acts : acts[t].kind = "page" /\ acts[t].entered}

Sheets == {t \in DOMAIN acts : acts[t].kind \in {"css", "csstext"} /\ acts[t].entered}

NodeOf(t, i) == inZipFiles[acts[t].inZipPath].file.nodes[i]

NodesOf(t) == DOMAIN inZipFiles[acts[t].inZipPath].file.nodes

\* what parseUrl makes of the reference of element i of the document of call t
InfoOf(t, i) == parseUrl(NodeOf(t, i).val, inZipPathToUrl(acts[t].inZipPath))

\* the calls started for element (or token) i by call t
TasksOf(t, i) == {c \in DOMAIN acts : acts[c].parent = t /\ acts[c].slot = i}

EnteredFor(inZipPath) == {t \in Pages : acts[t].inZipPath = inZipPath}

\* every locator is the one of a loaded entry or was made by one of the calls
LocatorsAccounted ==
  /\ blobCount = Cardinality(DOMAIN inZipFiles)
                   + Cardinality(UNION {acts[t].made : t \in DOMAIN acts})
  /\ rewrittenBlobUrl \subseteq UNION {acts[t].made : t \in DOMAIN acts}
  /\ DOMAIN blobUrlToInZipPath =
       {inZipFiles[q].url : q \in DOMAIN inZipFiles} \cup rewrittenBlobUrl

\* the archive has an entry for the index file
HasIndex ==
  \E k \in DOMAIN zipFiles : zipFiles[k].path = indexFile /\ ~zipFiles[k].dir

RootDone == acts # <<>> /\ acts[1].st = "done" /\ acts[1].result # JsNull

(***************************************************************************)
(* Frames.                                                                 *)
(***************************************************************************)
IsFrameTo(nodes, refs) ==
  /\ Len(nodes) = 1
  /\ nodes[1].tag = "iframe" /\ nodes[1].attr = "src"
  /\ nodes[1].val \in refs

\* A (the index file) frames B and B frames A
CycleArchive ==
  /\ IsFrameTo(zipFiles[2].file.nodes, {RefB, RefBx})
  /\ IsFrameTo(zipFiles[3].file.nodes, {RefA, RefAPct})

CycleSettled ==
  /\ RootDone
  /\ Cardinality(EnteredFor(PathA)) = 1
  /\ Cardinality(EnteredFor(PathB)) = 1
  /\ \A t \in EnteredFor(PathB) : acts[t].out = <<AboutBlank>>

\* C1: when A frames B and B frames A, fetchPage of A with an empty chain
\* completes, parseDocument is never entered twice for A or for B and is in
\* the end entered once for each, and the src of the frame of the rewritten B
\* is about:blank.
C1_FrameCycle ==
  CycleArchive =>
    /\ [](Cardinality(EnteredFor(PathA)) <= 1 /\ Cardinality(EnteredFor(PathB)) <= 1)
    /\ <>CycleSettled

C1_Witness == CycleArchive /\ CycleSettled /\ zipFiles[3].file.nodes[1].val = RefAPct

(***************************************************************************)
(* The chain.                                                              *)
(***************************************************************************)
\* C2: no call of fetchFile or fetchPage made by parseDocument or by
\* startFetches for an entry of the archive is given a chain that holds the
\* virtual URL of that entry.
C2_TargetNotInChain ==
  \A t \in DOMAIN acts :
    (acts[t].parent # 0 /\ acts[t].kind \in {"page", "css", "file"}
       /\ Found(acts[t].inZipPath))
      => inZipPathToUrl(acts[t].inZipPath) \notin Range(acts[t].recurseChain)

\* C3: fetchPage of the index file of an archive that has it, with an empty
\* chain, completes with a locator, whatever the references of the archive are.
C3_Completes == HasIndex => <>RootDone

(***************************************************************************)
(* Stylesheets.                                                            *)
(***************************************************************************)
\* the text a call of processCssText returns
OutText(t) == IF acts[t].kind = "csstext" THEN acts[t].result ELSE acts[t].text

OpenerPositions(text) == {p \in DOMAIN text : text[p] \in CssOpeners}

\* the place of the j-th URL of a stylesheet
PositionOf(text, j) ==
  CHOOSE p \in OpenerPositions(text) :
    Cardinality({q \in OpenerPositions(text) : q <= p}) = j

CircularToken(t, j) ==
  IsCircular(parseUrl(acts[t].urlHash[j].url,
                      FetcherChain(acts[t])[Len(FetcherChain(acts[t]))]),
             FetcherChain(acts[t]))

Settled(t) == acts[t].st = "done"

\* C4: a token of processCssText whose URL resolves to an entry whose virtual
\* URL is in the chain of the fetcher has no fetch started for it, and the
\* text returned has about:blank in the place of its URL.
C4_CircularIsBlank ==
  \A t \in Sheets :
    \A j \in DOMAIN acts[t].urlHash :
      CircularToken(t, j) =>
        /\ TasksOf(t, j) = {}
        /\ Settled(t) => OutText(t)[PositionOf(OutText(t), j) + 1] = "about:blank"

Markers(t) == {<<MarkerPrefix, acts[t].urlHash[j].key>> : j \in DOMAIN acts[t].urlHash}

HasMarker(text, t) ==
  \E p \in 1..(Len(text) - 1) : <<text[p], text[p + 1]>> \in Markers(t)

\* C5: processCssText allocates one token for each URL of the text, the
\* tokens are pairwise distinct, and once it has returned every task of a
\* token has finished, every token has a final value that is not null, and
\* the text returned holds the marker of no allocated token.
C5_TokensResolved ==
  \A t \in Sheets :
    /\ Len(acts[t].urlHash) = Cardinality(OpenerPositions(SourceText(World, t)))
    /\ \A j, k \in DOMAIN acts[t].urlHash :
         acts[t].urlHash[j].key = acts[t].urlHash[k].key => j = k
    /\ Settled(t) =>
         /\ \A c \in Children(World, t) : Settled(c)
         /\ \A j \in DOMAIN acts[t].urlHash : acts[t].urlHash[j].newUrl # JsNull
         /\ ~HasMarker(OutText(t), t)

(***************************************************************************)
(* Links and refreshes to the document itself.                             *)
(***************************************************************************)
IsSelf(t, i) == InfoOf(t, i).inZip /\ InfoOf(t, i).inZipPath = acts[t].inZipPath

FragmentOrHash(t, i) == OrElse(InfoOf(t, i).hash, <<"#">>)

KeptAsSelfLink(t, i) ==
  /\ acts[t].out[i] = FragmentOrHash(t, i)
  /\ TasksOf(t, i) = {}
  /\ LocatorsAccounted

HtmlAnchor(e) == e.root = "html" /\ e.tag \in {"a", "area"} /\ e.attr = "href"

\* C9: in SVG a href or xlink:href, in MathML a href, and elsewhere the href
\* of a/area that resolves to the document being rewritten is set to the
\* fragment of the reference, or to '#' when it has none; no call is started
\* for it and no locator is made for it.
C9_SelfLink ==
  \A t \in Pages :
    \A i \in NodesOf(t) :
      (/\ \/ HtmlAnchor(NodeOf(t, i))
          \/ NodeOf(t, i).root = "svg" /\ NodeOf(t, i).attr \in {"href", "xlink:href"}
          \/ NodeOf(t, i).root = "math" /\ NodeOf(t, i).attr = "href"
       /\ IsSelf(t, i))
        => KeptAsSelfLink(t, i)

C9_Witness ==
  \E t \in Pages :
    \E i, j \in NodesOf(t) :
      /\ NodeOf(t, i).root = "svg" /\ NodeOf(t, i).attr = "xlink:href"
      /\ NodeOf(t, i).val = RefAPct /\ acts[t].out[i] = <<"#">>
      /\ HtmlAnchor(NodeOf(t, j))
      /\ NodeOf(t, j).val = RefX /\ acts[t].out[j] = <<"#", "x">>

\* C9 as stated: the same of href and xlink:href in SVG and in MathML alike.
C9_SelfLinkAnyAttribute ==
  \A t \in Pages :
    \A i \in NodesOf(t) :
      (/\ \/ HtmlAnchor(NodeOf(t, i))
          \/ NodeOf(t, i).root \in {"svg", "math"}
               /\ NodeOf(t, i).attr \in {"href", "xlink:href"}
       /\ IsSelf(t, i))
        => KeptAsSelfLink(t, i)

RefreshOf(t, i) == parseHeaderRefresh(NodeOf(t, i).val)

RefreshInfoOf(t, i) ==
  parseUrl(RefreshOf(t, i).url, inZipPathToUrl(acts[t].inZipPath))

\* C10: a meta refresh whose target resolves to the document being rewritten
\* is set to its delay, followed by ';url=' and the fragment of the target
\* when it has one; no call is started for it and no locator is made.
C10_SelfRefresh ==
  \A t \in Pages :
    \A i \in NodesOf(t) :
      (/\ NodeOf(t, i).tag = "meta"
       /\ RefreshOf(t, i).url # <<>>
       /\ RefreshInfoOf(t, i).inZip
       /\ RefreshInfoOf(t, i).inZipPath = acts[t].inZipPath)
        => /\ acts[t].out[i] =
                RefreshOf(t, i).time
                  \o (IF RefreshInfoOf(t, i).hash # <<>>
                        THEN <<";url=">> \o RefreshInfoOf(t, i).hash ELSE <<>>)
           /\ TasksOf(t, i) = {}
           /\ LocatorsAccounted

(***************************************************************************)
(* The interface of the store called on its own: parseUrl, fetchFile with  *)
(* no rewriteFunc, fetchPage and fetchFile with processCssFile, in any     *)
(* order once the archive is loaded.  call is the last call, with the      *)
(* store before and after it.                                              *)
(***************************************************************************)
MaxCalls == 2

ApiRefs == {RefNone, BadUrl}

ApiUrls == {RefX, RefAq, RefNone, BadUrl}

ApiNodes ==
  {Elem("iframe", "html", "src", r) : r \in ApiRefs}
    \cup {Elem("link", "html", "href", r) : r \in ApiRefs}
    \cup {Elem("a", "html", "href", r) : r \in ApiRefs}
    \cup {Elem("style", "html", "text", <<"url(">> \o r \o <<")">>) : r \in ApiRefs}

ApiPaths == {PathA, PathS, RefNone}

ApiRefUrls == {inZipPathToUrl(PathA), Undefined}

InitApi ==
  /\ \E e \in ApiNodes : zipFiles = Archive(<<e>>, <<>>)
  /\ InitStore
  /\ \E hasCsp \in BOOLEAN : view = NoView(hasCsp)

StoreOf(W) == [files |-> inZipFiles, b2p |-> W.b2p, rw |-> W.rw, n |-> W.n]

RootCalls == Cardinality({t \in DOMAIN acts : acts[t].parent = 0})

ApiParseUrl ==
  /\ loaded = Len(zipFiles)
  /\ UNCHANGED <<zipFiles, loaded, storeVars, acts, arrays, codec, view>>
  /\ \E url \in ApiUrls, refUrl \in ApiRefUrls :
       call' = [op |-> "parseUrl", url |-> url, refUrl |-> refUrl,
                info |-> parseUrl(url, refUrl),
                before |-> StoreOf(World),
                after |-> [files |-> inZipFiles', b2p |-> blobUrlToInZipPath',
                           rw |-> rewrittenBlobUrl', n |-> blobCount']]

ApiFetchFile ==
  /\ loaded = Len(zipFiles)
  /\ RootCalls < MaxCalls
  /\ \E inZipPath \in ApiPaths :
       \E W \in {fetchFile(c.W, 0, 0, inZipPath, <<>>, c.ref) :
                   c \in {newArray(World, <<>>)}} :
         /\ Becomes(W)
         /\ call' = [op |-> "fetchFile", inZipPath |-> inZipPath,
                     result |-> W.acts[Len(acts) + 1].result,
                     before |-> StoreOf(World), after |-> StoreOf(W)]
  /\ UNCHANGED <<zipFiles, loaded, inZipFiles, codec, view>>

ApiFetchPage ==
  /\ loaded = Len(zipFiles)
  /\ RootCalls < MaxCalls
  /\ \E inZipPath \in ApiPaths :
       \E W \in {fetchPage(c.W, 0, 0, inZipPath, <<>>, c.ref) :
                   c \in {newArray(World, <<>>)}} :
         Becomes(W)
  /\ call' = [op |-> "fetchPage"]
  /\ UNCHANGED <<zipFiles, loaded, inZipFiles, codec, view>>

ApiFetchCss ==
  /\ loaded = Len(zipFiles)
  /\ RootCalls < MaxCalls
  /\ \E inZipPath \in ApiPaths :
       \E W \in {fetchCssFile(c.W, 0, 0, inZipPath, <<>>, c.ref) :
                   c \in {newArray(World, <<>>)}} :
         Becomes(W)
  /\ call' = [op |-> "fetchCssFile"]
  /\ UNCHANGED <<zipFiles, loaded, inZipFiles, codec, view>>

NextApi ==
  \/ LoadEntry
  \/ ApiParseUrl
  \/ ApiFetchFile
  \/ ApiFetchPage
  \/ ApiFetchCss
  \/ \E t \in DOMAIN acts : Resume(t)

SpecApi == InitApi /\ [][NextApi]_vars

\* url cannot be parsed against refUrl, or resolves under the virtual base to
\* a path with no entry
UnresolvedUrl(absoluteUrl) ==
  \/ ~absoluteUrl.ok
  \/ /\ StartsWith(Href(absoluteUrl), virtualBase)
     /\ hrefToInZipPath(Href(Bare(absoluteUrl))) \notin DOMAIN inZipFiles

Unresolved(url, refUrl) == The({UnresolvedUrl(u) : u \in {NewURL(url, refUrl)}})

HasReference(e) ==
  /\ e.root = "html"
  /\ \/ e.tag \in {"iframe", "frame"} /\ e.attr = "src"
     \/ e.tag \in {"link", "a", "area"} /\ e.attr = "href"

\* C6: parseUrl of a URL that cannot be parsed against the reference URL, or
\* that resolves under the virtual base to a path with no entry, returns
\* inZip = false and the URL it was given and leaves the store as it was; the
\* element of a document that holds such a reference keeps it, and every call
\* made for it is settled, with no locator.
C6_ParseUrlDegrades ==
  /\ (call.op = "parseUrl" /\ Unresolved(call.url, call.refUrl)) =>
       /\ ~call.info.inZip
       /\ call.info.url = call.url
       /\ call.after = call.before
  /\ \A t \in Pages :
       \A i \in NodesOf(t) :
         (/\ HasReference(NodeOf(t, i))
          /\ Unresolved(NodeOf(t, i).val, inZipPathToUrl(acts[t].inZipPath)))
           => /\ acts[t].out[i] = NodeOf(t, i).val
              /\ \A c \in TasksOf(t, i) : Settled(c) /\ acts[c].result = JsNull
              /\ Settled(t)

C6_Witness ==
  /\ call.op = "parseUrl" /\ call.url = RefNone
  /\ call.refUrl = inZipPathToUrl(PathA)
  /\ ~call.info.inZip
  /\ \E t \in Pages :
       /\ NodeOf(t, 1).tag = "iframe" /\ NodeOf(t, 1).val = BadUrl
       /\ TasksOf(t, 1) # {}
       /\ acts[t].out = <<BadUrl>>

\* C7: every call of fetchFile with no rewriteFunc for a path that has an
\* entry returns the locator of the entry itself and leaves the store as it
\* was, also after the file of the path has been rewritten under a new
\* locator; it makes no locator.
C7_PlainFetchIsOwnLocator ==
  /\ (call.op = "fetchFile" /\ Found(call.inZipPath)) =>
       /\ call.result = <<inZipFiles[call.inZipPath].url>>
       /\ call.after = call.before
  /\ \A t \in DOMAIN acts :
       (acts[t].kind = "file" /\ Found(acts[t].inZipPath)) =>
         /\ Settled(t)
         /\ acts[t].result = <<inZipFiles[acts[t].inZipPath].url>>
         /\ acts[t].made = {}
  /\ LocatorsAccounted

C7_Witness ==
  /\ call.op = "fetchFile" /\ call.inZipPath = PathS
  /\ \E u \in call.before.rw : call.before.b2p[u] = PathS
  /\ call.result = <<inZipFiles[PathS].url>>

(***************************************************************************)
(* The conversion of paths: a path is converted to its virtual URL and the *)
(* URL is resolved again, with and without an entry stored under the path. *)
(***************************************************************************)
PathChars == {"a", " ", "%", "@", "#", "U+00E9", ".", "2", "E", "/"}

\* '/'-separated and slash-normalized: no empty segment, no dot segment
ValidPath(x) ==
  /\ x # <<>>
  /\ \A i \in DOMAIN Split(x) : Split(x)[i] \notin {<<>>, <<".">>, <<".", ".">>}

ValidPaths == {x \in SeqsUpTo(PathChars, MaxPathLen) : ValidPath(x)}


InitCodec ==
  /\ \E x \in ValidPaths, present \in BOOLEAN :
       /\ codec = [pc |-> "path", p |-> x, present |-> present]
       /\ inZipFiles = IF present
                         THEN (x :> [file |-> [NoFile EXCEPT !.type = "text/html"],
                                     url |-> Blob(1)])
                         ELSE <<>>
       /\ blobUrlToInZipPath = IF present THEN (Blob(1) :> x) ELSE <<>>
       /\ blobCount = IF present THEN 1 ELSE 0
  /\ rewrittenBlobUrl = {}
  /\ zipFiles = <<>>
  /\ loaded = 0
  /\ acts = <<>>
  /\ arrays = <<>>
  /\ call = NoCall
  /\ view = NoView(TRUE)

CodecToUrl ==
  /\ codec.pc = "path"
  /\ codec' = [pc |-> "url", p |-> codec.p, present |-> codec.present,
               url |-> inZipPathToUrl(codec.p)]
  /\ UNCHANGED <<zipFiles, loaded, storeVars, acts, arrays, call, view>>

CodecParse ==
  /\ codec.pc = "url"
  /\ codec' = [pc |-> "done", p |-> codec.p, present |-> codec.present,
               url |-> codec.url,
               back |-> hrefToInZipPath(Href(Bare(NewURL(codec.url, Undefined)))),
               info |-> parseUrl(codec.url, Undefined)]
  /\ UNCHANGED <<zipFiles, loaded, storeVars, acts, arrays, call, view>>

NextCodec == CodecToUrl \/ CodecParse

SpecCodec == InitCodec /\ [][NextCodec]_vars

\* C8: a valid path converted to its virtual URL and back (the virtual base
\* stripped, each segment percent-decoded, as parseUrl does) is the same path,
\* and parseUrl of the virtual URL finds the entry stored under the path.
C8_RoundTrip ==
  codec.pc = "done" =>
    /\ codec.back = codec.p
    /\ codec.present =>
         /\ codec.info.inZip
         /\ codec.info.inZipPath = codec.p
         /\ codec.info.url = <<inZipFiles[codec.p].url>>

C8_Witness ==
  /\ codec.pc = "done"
  /\ codec.present
  /\ {"%", " ", "U+00E9", "/"} \subseteq Range(codec.p)
  /\ codec.url # virtualBase \o codec.p

(***************************************************************************)
(* Refreshes to another page.                                              *)
(***************************************************************************)
IsRefresh(t, i) == NodeOf(t, i).tag = "meta" /\ RefreshOf(t, i).url # <<>>

\* the refresh of element i leads to the locator made by the one call of
\* fetchPage started for it, with the chain of the document extended by the
\* virtual URL of the document
RefreshFetched(t, i, info) ==
  /\ \E c \in TasksOf(t, i) :
       /\ TasksOf(t, i) = {c}
       /\ acts[c].kind = "page"
       /\ acts[c].inZipPath = info.inZipPath
       /\ acts[c].recurseChain =
            Append(acts[t].recurseChain, inZipPathToUrl(acts[t].inZipPath))
       /\ Settled(c) =>
            /\ acts[c].result # JsNull
            /\ Head(acts[c].result) \in rewrittenBlobUrl
            /\ blobUrlToInZipPath[Head(acts[c].result)] = info.inZipPath
            /\ acts[t].out[i] = RefreshOf(t, i).time \o <<";url=">> \o acts[c].result
  /\ Settled(t) => \A c \in TasksOf(t, i) : Settled(c)

\* the refresh of element i leads to a page made for it that links to the URL
RefreshNoticed(t, i, info) ==
  /\ TasksOf(t, i) = {}
  /\ \E n \in acts[t].notices :
       /\ n.href = info.url
       /\ n.url \in acts[t].made
       /\ n.url \notin DOMAIN blobUrlToInZipPath
       /\ acts[t].out[i] = RefreshOf(t, i).time \o <<";url=", n.url>>
                             \o splitUrlByAnchor(info.url)[2]

\* C11: a meta refresh whose target is an entry other than the document, with
\* a virtual URL that is not in the chain, is set to its delay and the locator
\* returned by fetchPage of the entry with the chain extended by the virtual
\* URL of the document; one whose target is not in the archive is set to its
\* delay and the locator of a page made for it that links to the URL, with
\* the fragment of the target appended.
C11_RefreshElsewhere ==
  \A t \in Pages :
    \A i \in NodesOf(t) :
      IsRefresh(t, i) =>
        /\ (/\ RefreshInfoOf(t, i).inZip
            /\ RefreshInfoOf(t, i).inZipPath # acts[t].inZipPath
            /\ inZipPathToUrl(RefreshInfoOf(t, i).inZipPath)
                 \notin Range(acts[t].recurseChain))
             => RefreshFetched(t, i, RefreshInfoOf(t, i))
        /\ ~RefreshInfoOf(t, i).inZip => RefreshNoticed(t, i, RefreshInfoOf(t, i))

C11_Witness ==
  \E t \in Pages :
    \E i, k \in NodesOf(t) :
      /\ Settled(t)
      /\ IsRefresh(t, i) /\ RefreshOf(t, i).url = RefBx
      /\ \E c \in TasksOf(t, i) :
           /\ acts[t].out[i] = RefreshTime \o <<";url=">> \o acts[c].result
           /\ acts[c].result[2] = "#"
      /\ IsRefresh(t, k) /\ RefreshOf(t, k).url = RefExtX
      /\ \E n \in acts[t].notices :
           /\ n.href = RefExtX
           /\ acts[t].out[k] = RefreshTime \o <<";url=", n.url, "#", "x">>

(***************************************************************************)
(* What parseUrl returns for an entry of the archive.                      *)
(***************************************************************************)
ParseUrlUrls == Refs \cup ApiUrls

ParseUrlRefUrls == ApiRefUrls \cup {inZipPathToUrl(PathB)}

\* info names the entry that absoluteUrl stands for and has the locator of the
\* entry, followed by the fragment alone, as its url
FoundAsEntry(info, absoluteUrl) ==
  /\ absoluteUrl.ok
  /\ info.inZipPath \in DOMAIN inZipFiles
  /\ info.inZipPath = hrefToInZipPath(Href(Bare(absoluteUrl)))
  /\ info.url = <<inZipFiles[info.inZipPath].url>> \o Hash(absoluteUrl)
  /\ info.search = Search(absoluteUrl)
  /\ "?" \notin Range(info.url)

\* C12: whenever parseUrl returns inZip = true, inZipPath is the key of an
\* entry of inZipFiles and url is the locator of that entry followed by the
\* fragment of the reference; the query is returned in search and is no part
\* of url.  parseUrl reads inZipFiles alone, so it is applied to every URL and
\* reference URL in the states of each extent of inZipFiles where no call of
\* fetchFile has been made.
C12_FoundIsEntry ==
  /\ (call.op = "parseUrl" /\ call.info.inZip) =>
       FoundAsEntry(call.info, NewURL(call.url, call.refUrl))
  /\ acts = <<>> =>
       \A url \in ParseUrlUrls, refUrl \in ParseUrlRefUrls :
         parseUrl(url, refUrl).inZip =>
           FoundAsEntry(parseUrl(url, refUrl), NewURL(url, refUrl))

C12_Witness ==
  /\ call.op = "parseUrl" /\ call.url = RefAq /\ call.info.inZip
  /\ call.info.inZipPath = PathA
  /\ call.info.search = <<"?", "q">>
  /\ call.info.url = <<inZipFiles[PathA].url, "#", "x">>

(***************************************************************************)
(* The paths of the locators.                                              *)
(***************************************************************************)
LocatorsMapped ==
  /\ \A u \in rewrittenBlobUrl :
       /\ u \in DOMAIN blobUrlToInZipPath
       /\ \E t \in DOMAIN acts :
            /\ acts[t].kind \in {"page", "css"}
            /\ u \in acts[t].made
            /\ blobUrlToInZipPath[u] = acts[t].inZipPath
  /\ \A q \in DOMAIN inZipFiles :
       /\ inZipFiles[q].url \in DOMAIN blobUrlToInZipPath
       /\ blobUrlToInZipPath[inZipFiles[q].url] = q

MappingKept ==
  \A u \in DOMAIN blobUrlToInZipPath :
    /\ u \in DOMAIN blobUrlToInZipPath'
    /\ blobUrlToInZipPath'[u] = blobUrlToInZipPath[u]

\* C13: every locator of rewrittenBlobUrl is a key of blobUrlToInZipPath
\* mapped to the path of the call of fetchFile that made it, the locator of
\* every entry of inZipFiles is mapped to the path of the entry, and no step
\* changes or removes the path a locator is mapped to.
C13_LocatorPaths == []LocatorsMapped /\ [][MappingKept]_vars

C13_Witness ==
  \E u, v \in rewrittenBlobUrl :
    /\ u # v
    /\ blobUrlToInZipPath[u] = PathB
    /\ blobUrlToInZipPath[v] = PathB
    /\ blobUrlToInZipPath[inZipFiles[PathB].url] = PathB
    /\ \E w \in rewrittenBlobUrl : blobUrlToInZipPath[w] = PathA

(***************************************************************************)
(* What init shows.                                                        *)
(***************************************************************************)
RootSettled == acts # <<>> /\ acts[1].st = "done"

\* C14: when the index file has no entry, fetchPage returns null, init reports
\* one error and the src of the viewer iframe is never set; when it has one,
\* no error is reported and, once fetchPage has returned, the src of the
\* iframe is the locator returned.
C14_RootShownOrReported ==
  /\ ~HasIndex =>
       /\ view.src = JsNull
       /\ view.alerts = (IF acts = <<>> THEN 0 ELSE 1)
       /\ acts # <<>> =>
            /\ RootSettled /\ acts[1].result = JsNull
            /\ Len(acts) = 1
            /\ view.pc = "failed"
  /\ HasIndex =>
       /\ view.alerts = 0
       /\ view.pc # "failed"
       /\ IF RootSettled
            THEN /\ acts[1].result # JsNull
                 /\ Head(acts[1].result) \in rewrittenBlobUrl
                 /\ view.pc = "shown"
                 /\ view.src = acts[1].result
            ELSE view.src = JsNull

C14_Witness ==
  /\ ~HasIndex
  /\ loaded = Len(zipFiles)
  /\ zipFiles[2].file.nodes # <<>>
  /\ RootSettled
  /\ view = [pc |-> "failed", src |-> JsNull, alerts |-> 1, hasCsp |-> TRUE]

(***************************************************************************)
(* Serialization.                                                          *)
(***************************************************************************)
\* what the continuation of task c of document t assigns to its element
AssignedBy(t, c) ==
  CASE NodeOf(t, acts[c].slot).tag = "meta" ->
         RefreshOf(t, acts[c].slot).time \o <<";url=">>
           \o OrElse(acts[c].result, acts[c].url)
    [] NodeOf(t, acts[c].slot).tag = "style" -> acts[c].result
    [] OTHER -> OrElse(acts[c].result, acts[c].url)

\* C15: when parseDocument has serialized a document every task started in
\* its traversal has completed, what each task assigns to its element is in the
\* serialized content, and no element is assigned to afterwards: the
\* document stays as it was serialized.
C15_SerializedAfterTasks ==
  \A t \in DOMAIN acts :
    acts[t].how = "serialized" =>
      /\ acts[t].entered
      /\ \A c \in Children(World, t) :
           /\ Settled(c)
           /\ acts[t].content[acts[c].slot] = AssignedBy(t, c)
      /\ acts[t].out = acts[t].content

C15_Witness ==
  \E t \in DOMAIN acts :
    /\ acts[t].how = "serialized"
    /\ \E c, d \in Children(World, t) :
         /\ c < d
         /\ acts[c].kind = "page" /\ acts[c].entered
         /\ acts[d].kind = "css" /\ acts[d].entered
         /\ acts[d].result # JsNull /\ acts[c].result # JsNull
         /\ Head(acts[d].result) \in acts[d].made
         /\ Head(acts[c].result) \in acts[c].made
         /\ \E n, m \in 1..blobCount :
              /\ n < m
              /\ Head(acts[d].result) = Blob(n)
              /\ Head(acts[c].result) = Blob(m)
         /\ acts[t].content = <<acts[c].result, acts[d].result>>

(***************************************************************************)
(* Failures.                                                               *)
(***************************************************************************)
FailedAt(t, i) == \E c \in TasksOf(t, i) : acts[c].st = "failed"

\* C16: when a task of parseDocument fails, the fetch of the document still
\* returns the serialized document: the element of the failed task is as it
\* was in the file, and every other element is as rewritten.
C16_FailureContained ==
  \A t \in Pages :
    Settled(t) =>
      /\ acts[t].how = "serialized"
      /\ \A i \in NodesOf(t) :
           acts[t].content[i] =
             (IF FailedAt(t, i) THEN NodeOf(t, i).val ELSE acts[t].out[i])

\* the file of call t of fetchPage is of a document type and could not be
\* loaded as a document
NotLoaded(t) ==
  /\ acts[t].kind = "page"
  /\ Found(acts[t].inZipPath)
  /\ inZipFiles[acts[t].inZipPath].file.type \in HtmlTypes
  /\ Settled(t)
  /\ ~acts[t].entered

\* C17: no call of fetchPage fails, and a call of fetchPage for a file of a
\* document type that could not be loaded as a document returns a new
\* locator, recorded in rewrittenBlobUrl and mapped to the path of the file,
\* whose content is the file as it was.
C17_UnloadableIsOriginal ==
  \A t \in DOMAIN acts :
    /\ acts[t].kind = "page" => acts[t].st # "failed"
    /\ NotLoaded(t) =>
         /\ acts[t].result # JsNull
         /\ Head(acts[t].result) \in rewrittenBlobUrl
         /\ Head(acts[t].result) # inZipFiles[acts[t].inZipPath].url
         /\ blobUrlToInZipPath[Head(acts[t].result)] = acts[t].inZipPath
         /\ acts[t].how = "original"
         /\ acts[t].content = NodeValues(inZipFiles[acts[t].inZipPath].file.nodes)

C17_Witness ==
  \E t \in DOMAIN acts :
    /\ NotLoaded(t)
    /\ acts[t].parent # 0
    /\ NodesOf(t) # {}
    /\ acts[t].content = <<RefA>>
    /\ acts[acts[t].parent].how = "serialized"
    /\ acts[acts[t].parent].content[acts[t].slot] = acts[t].result

(***************************************************************************)
(* The order in which the readings complete.  The state reached is set     *)
(* against the one reached when, from the same loaded archive, every       *)
(* reading completes in the order in which the calls were made.  Locators  *)
(* are named in the order of their making, so a locator is compared by the *)
(* call that made it, and a call by the elements that lead to it.          *)
(***************************************************************************)
RECURSIVE Str(_)
Str(x) == IF x = <<>> THEN "" ELSE Head(x) \o Str(Tail(x))

RECURSIVE ActKey(_, _)
ActKey(W, t) ==
  IF W.acts[t].parent = 0 THEN "r"
  ELSE ActKey(W, W.acts[t].parent) \o "." \o ToString(W.acts[t].slot)

Makers(W, x) == {t \in DOMAIN W.acts : x \in W.acts[t].made}

NoticeOf(W, t, x) == {n \in W.acts[t].notices : n.url = x}

NormToken(W, x) ==
  IF Makers(W, x) = {} THEN x
  ELSE The({IF NoticeOf(W, t, x) # {}
              THEN "notice:" \o ActKey(W, t) \o ":" \o Str(The(NoticeOf(W, t, x)).href)
              ELSE "made:" \o ActKey(W, t) : t \in Makers(W, x)})

NormText(W, v) == [k \in DOMAIN v |-> NormToken(W, v[k])]

NormTexts(W, vs) == [i \in DOMAIN vs |-> NormText(W, vs[i])]

\* the text of the stylesheet a call of fetchFile has rewritten (the keys of the
\* markers of a text not yet rewritten are random)
RewrittenText(W, t) ==
  IF W.acts[t].kind = "css" /\ W.acts[t].st = "done" THEN W.acts[t].text ELSE <<>>

Snapshot(W) ==
  {<<ActKey(W, t), W.acts[t].kind, W.acts[t].st,
     NormTexts(W, W.acts[t].out), NormTexts(W, W.acts[t].content),
     NormText(W, RewrittenText(W, t)), NormText(W, W.acts[t].result)>> :
     t \in DOMAIN W.acts}

PendingIn(W) == {t \in DOMAIN W.acts : W.acts[t].st = "pending"}

Quiet == acts # <<>> /\ PendingIn(World) = {}

\* the store when the archive has been loaded
LoadedWorld ==
  [acts |-> <<>>,
   b2p |-> [u \in {inZipFiles[q].url : q \in DOMAIN inZipFiles} |->
              CHOOSE q \in DOMAIN inZipFiles : inZipFiles[q].url = u],
   rw |-> {},
   n |-> Cardinality(DOMAIN inZipFiles),
   hasCsp |-> view.hasCsp,
   arrays |-> <<>>]

RECURSIVE ResumeAll(_)
ResumeAll(W) ==
  IF PendingIn(W) = {} THEN W
  ELSE The({ResumeAll(W1) :
              W1 \in {resume(W, CHOOSE t \in PendingIn(W) :
                                  \A u \in PendingIn(W) : t <= u)}})

InOrder ==
  ResumeAll(The({fetchPage(c.W, 0, 0, indexFile, <<>>, c.ref) :
                   c \in {newArray(LoadedWorld, <<>>)}}))

\* C18: when no reading is awaited any more, every attribute and text of
\* every document, and every stylesheet text, is what it is when the readings
\* complete in the order of the calls, whatever order they completed in; and
\* at no time have two calls been started for the same element of a document.
C18_OrderIndependent ==
  /\ \A t \in Pages :
       \A i \in NodesOf(t) : Cardinality(TasksOf(t, i)) <= 1
  /\ Quiet => Snapshot(World) = Snapshot(InOrder)

C18_Witness ==
  /\ Quiet
  /\ RootDone
  /\ acts # InOrder.acts
  /\ \E t \in Pages :
       /\ Cardinality(Children(World, t)) = 2
       /\ \A c \in Children(World, t) : acts[c].entered

(***************************************************************************)
(* The insertions in the head of a document.                               *)
(***************************************************************************)
CountIn(head, e) == Cardinality({k \in DOMAIN head : head[k] = e})

\* C19: in a serialized HTML or XHTML document rewritten with viewer.hasCsp
\* set, the de-API script is the first child of head, the reset stylesheet
\* link comes after it, and each of the two is in head once.
C19_DeApiScriptFirst ==
  \A t \in DOMAIN acts :
    (acts[t].how = "serialized" /\ view.hasCsp) =>
      /\ CountIn(acts[t].head, DeApiScript) = 1
      /\ CountIn(acts[t].head, ResetCss) = 1
      /\ Head(acts[t].head) = DeApiScript

(***************************************************************************)
(* The arrays of the recursion chains.                                     *)
(***************************************************************************)
\* no step changes an array that has been made
ArraysKept ==
  \A r \in DOMAIN arrays : r \in DOMAIN arrays' /\ arrays'[r] = arrays[r]

\* the array a call was given holds what it held when the call was made, and
\* the array of its fetcher what the constructor put in it
ChainsAsReceived ==
  \A t \in DOMAIN acts :
    /\ arrays[acts[t].chain] = acts[t].recurseChain
    /\ acts[t].fetcher # 0 => arrays[acts[t].fetcher] = FetcherChain(acts[t])

\* the chain a call made by call t is made with
ChildChain(t, c) ==
  CASE acts[t].kind = "page" /\ acts[c].kind = "page" ->
         Append(acts[t].recurseChain, inZipPathToUrl(acts[t].inZipPath))
    [] acts[t].kind = "page" /\ acts[c].kind = "css" ->
         <<inZipPathToUrl(acts[t].inZipPath)>>
    [] acts[t].kind = "page" /\ acts[c].kind = "csstext" ->
         acts[t].recurseChain
    [] OTHER -> FetcherChain(acts[t])

\* the array a call made by call t is given: the array of the fetcher, the
\* array of the document for the text of a style element, otherwise an array
\* of its own, which only the texts of its own style elements are given too
ChildArray(t, c) ==
  CASE acts[t].kind # "page" -> acts[c].chain = acts[t].fetcher
    [] acts[t].kind = "page" /\ acts[c].kind = "csstext" ->
         acts[c].chain = acts[t].chain
    [] OTHER ->
         /\ acts[c].chain # acts[t].chain
         /\ \A d \in DOMAIN acts :
              (d # c /\ acts[d].chain = acts[c].chain) =>
                 (acts[d].kind = "csstext" /\ acts[d].parent = c)

ChildChains ==
  \A c \in DOMAIN acts :
    acts[c].parent # 0 =>
      /\ acts[c].recurseChain = ChildChain(acts[c].parent, c)
      /\ ChildArray(acts[c].parent, c)
      /\ acts[acts[c].parent].fetcher # acts[acts[c].parent].chain

\* C20: no array given to parseDocument or to a ComplexUrlFetcher as the
\* recursion chain is ever changed; every frame and refreshed page is fetched
\* with an array of its own holding the chain of its document and then the
\* URL of the document, every linked stylesheet with an array of its own
\* holding that URL, and every token of a stylesheet with the array of its
\* fetcher, a copy of the chain of the stylesheet and then its URL: no chain
\* holds what was appended for a sibling, in whatever order the readings
\* complete.
C20_ChainsNotMutated ==
  /\ [](ChainsAsReceived /\ ChildChains)
  /\ [][ArraysKept]_vars

\* a document with two elements fetched with chains of their own, one of them
\* a frame or a refreshed page that has been rewritten, and a stylesheet
\* whose tokens are fetched with the array of its fetcher
C20_Witness ==
  \E t, c, d, e, f \in DOMAIN acts :
    /\ c # d
    /\ acts[c].parent = t /\ acts[d].parent = t
    /\ acts[t].kind = "page"
    /\ acts[c].kind = "page" /\ acts[c].entered /\ acts[c].st = "done"
    /\ acts[d].kind \in {"page", "css"}
    /\ acts[f].parent = e /\ acts[e].fetcher # 0

(***************************************************************************)
(* The store under concurrent rewrites.                                    *)
(***************************************************************************)
StoreGrows ==
  /\ loaded = Len(zipFiles) => inZipFiles' = inZipFiles
  /\ \A u \in DOMAIN blobUrlToInZipPath :
       /\ u \in DOMAIN blobUrlToInZipPath'
       /\ blobUrlToInZipPath'[u] = blobUrlToInZipPath[u]
  /\ rewrittenBlobUrl \subseteq rewrittenBlobUrl'

\* C21: in every interleaving of the rewrites, no step taken once the archive
\* is loaded changes inZipFiles, and no step removes a key of
\* blobUrlToInZipPath, maps one to another path, or takes a locator out of
\* rewrittenBlobUrl.
C21_StoreAppendOnly == [][StoreGrows]_vars

\* two rewrites of the same path have registered their locators while another
\* reading is still awaited
C21_Witness ==
  \E t, c, d \in DOMAIN acts :
    /\ t # c
    /\ acts[t].inZipPath = acts[c].inZipPath
    /\ acts[t].made \cap rewrittenBlobUrl # {}
    /\ acts[c].made \cap rewrittenBlobUrl # {}
    /\ acts[t].made # acts[c].made
    /\ acts[d].st = "pending"

(***************************************************************************)
(* fetchFile with a rewriteFunc.                                           *)
(***************************************************************************)
\* call t is a call of fetchFile with a rewriteFunc for a path with an entry
Rewrites(t) == acts[t].kind \in {"page", "css"} /\ Found(acts[t].inZipPath)

\* the locators registered for call t
RegisteredBy(t) == acts[t].made \cap rewrittenBlobUrl

\* what a call of fetchFile that has returned has returned
Returned(t) ==
  IF acts[t].st = "done" /\ acts[t].kind # "csstext" /\ acts[t].result # JsNull
    THEN {Head(acts[t].result)} ELSE {}

RewrittenOnce ==
  \A t \in DOMAIN acts :
    Rewrites(t) =>
      IF acts[t].st = "done"
        THEN /\ Returned(t) = RegisteredBy(t)
             /\ Cardinality(RegisteredBy(t)) = 1
             /\ \A u \in Returned(t) :
                  /\ u \in DOMAIN blobUrlToInZipPath
                  /\ blobUrlToInZipPath[u] = acts[t].inZipPath
                  /\ \A q \in DOMAIN inZipFiles : u # inZipFiles[q].url
                  /\ \A c \in DOMAIN acts :
                       c # t => u \notin Returned(c) \cup acts[c].made
        ELSE RegisteredBy(t) = {}

OwnLocatorsKept ==
  \A q \in DOMAIN inZipFiles :
    /\ inZipFiles[q].url \notin rewrittenBlobUrl
    /\ blobUrlToInZipPath[inZipFiles[q].url] = q
    /\ q \in DOMAIN inZipFiles' /\ inZipFiles'[q] = inZipFiles[q]

\* a call that has returned is not run again
ReturnedOnce ==
  \A t \in DOMAIN acts :
    acts[t].st = "done" =>
      /\ acts'[t].st = "done"
      /\ acts'[t].result = acts[t].result
      /\ acts'[t].made = acts[t].made
      /\ acts'[t].entered = acts[t].entered

\* C22: every call of fetchFile with a rewriteFunc for a path with an entry
\* that has returned has run its rewriteFunc once and registered one locator,
\* the one it returned: a key of blobUrlToInZipPath mapped to the path and a
\* member of rewrittenBlobUrl, other than the locator of every entry of
\* inZipFiles and than every locator issued to or returned by another call;
\* and the locators of the entries of inZipFiles stay as they are.
C22_RewriteIsNewLocator ==
  /\ []RewrittenOnce
  /\ [][OwnLocatorsKept /\ ReturnedOnce]_vars

\* two calls with a rewriteFunc for the same path have returned
C22_Witness ==
  \E t, c \in DOMAIN acts :
    /\ t # c
    /\ Rewrites(t) /\ Rewrites(c)
    /\ acts[t].inZipPath = acts[c].inZipPath
    /\ acts[t].st = "done" /\ acts[c].st = "done"
    /\ acts[t].entered

(***************************************************************************)
(* The chain of a linked stylesheet.                                       *)
(***************************************************************************)
\* call c is the fetch of the stylesheet of a link element of document t
LinkedSheet(t, c) ==
  /\ acts[c].parent = t
  /\ acts[t].kind = "page"
  /\ acts[c].kind = "css"

\* the chain the references of the stylesheet of call c are resolved with
SheetChain(t, c) ==
  <<inZipPathToUrl(acts[t].inZipPath), inZipPathToUrl(acts[c].inZipPath)>>

\* C23: the fetch of the stylesheet of a link element is started with the
\* chain that holds the URL of the document of the element and nothing else,
\* whatever the chain of the document; once the stylesheet is read, its
\* references are checked against, and fetched with, that chain and then the
\* URL of the stylesheet.
C23_LinkChainFresh ==
  \A t, c \in DOMAIN acts :
    LinkedSheet(t, c) =>
      /\ acts[c].recurseChain = <<inZipPathToUrl(acts[t].inZipPath)>>
      /\ arrays[acts[c].chain] = <<inZipPathToUrl(acts[t].inZipPath)>>
      /\ acts[c].entered =>
           /\ arrays[acts[c].fetcher] = SheetChain(t, c)
           /\ \A f \in DOMAIN acts :
                acts[f].parent = c =>
                  /\ acts[f].recurseChain = SheetChain(t, c)
                  /\ inZipPathToUrl(acts[f].inZipPath) \notin Range(SheetChain(t, c))

\* a document rewritten with a chain that is not empty links a stylesheet one
\* of whose references has been fetched
C23_Witness ==
  \E t, c, f \in DOMAIN acts :
    /\ LinkedSheet(t, c)
    /\ acts[t].recurseChain # <<>>
    /\ acts[c].entered
    /\ acts[f].parent = c

(***************************************************************************)
(* The style attributes.                                                   *)
(***************************************************************************)
\* the elements of the document of call t that have a style attribute
StyledIn(t, roots) ==
  {i \in DOMAIN inZipFiles[acts[t].inZipPath].file.nodes :
     /\ inZipFiles[acts[t].inZipPath].file.nodes[i].attr = "style"
     /\ inZipFiles[acts[t].inZipPath].file.nodes[i].root \in roots}

\* the style attribute of every such element of a serialized document is the
\* result of a call of processCssText for its value
StyleRewritten(roots) ==
  \A t \in DOMAIN acts :
    (acts[t].kind = "page" /\ acts[t].how = "serialized") =>
      \A i \in StyledIn(t, roots) :
        \E c \in DOMAIN acts :
          /\ acts[c].kind = "csstext"
          /\ acts[c].parent = t /\ acts[c].slot = i
          /\ acts[c].st = "done"
          /\ acts[t].content[i] = acts[c].result
          /\ acts[t].content[i] =
               <<"url(", inZipFiles[PathS].url, ")">>

\* C24: in a serialized document, the style attribute of every element that
\* has one, in HTML, in SVG and in MathML, is the result of processCssText
\* for the value the attribute had.
C24_StyleAttributeRewritten == StyleRewritten({"html", "svg", "math"})

(***************************************************************************)
(* The final values of the tokens of a stylesheet.                         *)
(***************************************************************************)
\* the URL the references of the stylesheet of call t are resolved against
SourceUrl(t) == FetcherChain(acts[t])[Len(FetcherChain(acts[t]))]

TokenInfo(t, j) == parseUrl(acts[t].urlHash[j].url, SourceUrl(t))

\* token j of call t has the locator fetchFile returned for its target: the
\* locator of a rewrite of the target for an import, the one of the entry of
\* the target otherwise
HasLocator(t, j, info) ==
  /\ Cardinality(TasksOf(t, j)) = 1
  /\ \A c \in TasksOf(t, j) :
       /\ acts[c].inZipPath = info.inZipPath
       /\ acts[t].urlHash[j].newUrl = acts[c].result
  /\ IF acts[t].urlHash[j].rewriteFunc
       THEN \E u \in rewrittenBlobUrl :
              /\ acts[t].urlHash[j].newUrl = <<u>>
              /\ blobUrlToInZipPath[u] = info.inZipPath
       ELSE acts[t].urlHash[j].newUrl = <<inZipFiles[info.inZipPath].url>>

\* token j of call t has its URL as in the text when the URL cannot be
\* parsed or resolves to a path with no entry, and the URL it resolves to
\* otherwise
HasUrl(t, j) ==
  acts[t].urlHash[j].newUrl =
    IF Unresolved(acts[t].urlHash[j].url, SourceUrl(t))
      THEN acts[t].urlHash[j].url
      ELSE Href(NewURL(acts[t].urlHash[j].url, SourceUrl(t)))

\* the text returned has the final value of token j in the place of its URL
Substituted(t, j) ==
  SubSeq(OutText(t), PositionOf(OutText(t), j) + 1,
         PositionOf(OutText(t), j) + Len(acts[t].urlHash[j].newUrl))
    = acts[t].urlHash[j].newUrl

\* C25: once processCssText has returned, every token whose target is not in
\* the chain of the fetcher has, as its final value and in the text returned,
\* the locator fetchFile returned when the target is in the archive (a new
\* rewritten locator for an import, the locator of the entry otherwise), the
\* URL it resolves to when the target is outside the archive, and its URL as
\* written when that cannot be parsed or is a path with no entry.
C25_TokenFinalValue ==
  \A t \in Sheets :
    Settled(t) =>
      \A j \in DOMAIN acts[t].urlHash :
        ~CircularToken(t, j) =>
          /\ IF TokenInfo(t, j).inZip
               THEN HasLocator(t, j, TokenInfo(t, j))
               ELSE HasUrl(t, j)
          /\ Substituted(t, j)

\* stylesheets have returned with an import of an entry, a url() of an entry,
\* a URL outside the archive and a path with no entry among their tokens
C25_Witness ==
  \E t1, t2, t3, t4 \in Sheets :
    \E j1 \in DOMAIN acts[t1].urlHash, j2 \in DOMAIN acts[t2].urlHash,
       j3 \in DOMAIN acts[t3].urlHash, j4 \in DOMAIN acts[t4].urlHash :
      /\ Settled(t1) /\ Settled(t2) /\ Settled(t3) /\ Settled(t4)
      /\ ~CircularToken(t1, j1) /\ ~CircularToken(t2, j2)
      /\ TokenInfo(t1, j1).inZip /\ acts[t1].urlHash[j1].rewriteFunc
      /\ TokenInfo(t2, j2).inZip /\ ~acts[t2].urlHash[j2].rewriteFunc
      /\ acts[t3].urlHash[j3].url = RefExt
      /\ acts[t4].urlHash[j4].url = RefNone

(***************************************************************************)
(* The clicks in nested frames.                                            *)
(***************************************************************************)
LeftClick == call.op = "click" /\ call.button = 0

\* the href of the last click is no key of blobUrlToInZipPath, or is a
\* locator of rewrittenBlobUrl
NotOwnLocator ==
  \/ ~KnownLocator(World, call.main)
  \/ call.main[1] \in rewrittenBlobUrl

\* every call made by a click is a fetchPage, with an empty chain, of an HTML
\* or XHTML entry, for a link whose href was the locator of that entry
ClickFetches ==
  \A t \in DOMAIN acts :
    acts[t].from # NoClick =>
      /\ acts[t].kind = "page" /\ acts[t].parent = 0
      /\ acts[t].recurseChain = <<>>
      /\ Found(acts[t].inZipPath)
      /\ inZipFiles[acts[t].inZipPath].file.type \in ClickTypes
      /\ splitUrlByAnchor(acts[t].url)[1] = <<inZipFiles[acts[t].inZipPath].url>>
      /\ inZipFiles[acts[t].inZipPath].url \notin rewrittenBlobUrl

\* a click that is not suppressed starts nothing and registers nothing
IdleClick ==
  (call' # call /\ call'.op = "click" /\ ~call'.prevented) =>
    UNCHANGED <<acts, arrays, inZipFiles, blobUrlToInZipPath, rewrittenBlobUrl,
                blobCount>>

\* C26: a left click, in a nested frame, on a link whose href is a locator of
\* rewrittenBlobUrl or no known locator starts no fetch and does not suppress
\* the navigation; fetchPage is started by a click only with an empty chain
\* and only for a link to the own locator of an HTML or XHTML entry.
C26_ClickRewritesOwnOnly ==
  /\ []((LeftClick /\ NotOwnLocator) => (~call.prevented /\ call.started = 0))
  /\ []((LeftClick /\ call.started # 0) =>
          (call.prevented /\ acts[call.started].from = [c |-> call.c, i |-> call.i]))
  /\ []ClickFetches
  /\ [][IdleClick]_vars

\* a link of a framed document has been clicked, its page fetched and its
\* href set to the rewritten locator, and clicked again
C26_Witness ==
  /\ LeftClick
  /\ KnownLocator(World, call.main)
  /\ call.main[1] \in rewrittenBlobUrl
  /\ call.i \in DOMAIN acts[call.c].live
  /\ call.url = acts[call.c].live[call.i]
  /\ ~call.prevented

(***************************************************************************)
(* The identity of the target of a meta refresh.                           *)
(***************************************************************************)
\* the refresh of element i of the document of call t is kept as a refresh
\* to the document itself
RefreshKept(t, i) ==
  /\ acts[t].out[i] =
       RefreshOf(t, i).time
         \o (IF RefreshInfoOf(t, i).hash # <<>>
               THEN <<";url=">> \o RefreshInfoOf(t, i).hash ELSE <<>>)
  /\ TasksOf(t, i) = {}

\* it is cut
RefreshCut(t, i) ==
  /\ acts[t].out[i] = RefreshOf(t, i).time \o <<";url=">> \o AboutBlank
  /\ TasksOf(t, i) = {}

\* the refreshes, written in any of the spellings in urls, whose target is an
\* entry are kept when the entry is the one of the document, and only then,
\* and are cut when the virtual URL of the entry is in the chain of the
\* document, and only then
RefreshByPath(urls) ==
  \A t \in Pages :
    \A i \in NodesOf(t) :
      (IsRefresh(t, i) /\ RefreshOf(t, i).url \in urls /\ RefreshInfoOf(t, i).inZip) =>
        /\ RefreshKept(t, i) <=> RefreshInfoOf(t, i).inZipPath = acts[t].inZipPath
        /\ RefreshCut(t, i) <=>
             /\ RefreshInfoOf(t, i).inZipPath # acts[t].inZipPath
             /\ inZipPathToUrl(RefreshInfoOf(t, i).inZipPath)
                  \in Range(acts[t].recurseChain)

\* C27: a meta refresh whose target resolves to the path P of an entry is
\* kept as a refresh to the document itself exactly when P is the path of the
\* document, and is cut with about:blank, with no fetch, exactly when P is
\* another path and inZipPathToUrl(P) is in the chain of the document, however
\* the reference is percent-encoded.
C27_RefreshIdentity == RefreshByPath(Refs \cup {RefExtX})

=============================================================================
